---- MODULE Spec2Model ----
(***************************************************************************)
(* A model of the design-baselines search programs.                        *)
(*                                                                         *)
(* One run executes exactly one program, named by `prog`:                  *)
(*   csm, conservative_ensemble, reinforce   the solver loops              *)
(*   online                                  the online training loop      *)
(*   entry                                   the checkpointing entry points*)
(*   launcher                                the coms_cleaned commands     *)
(*   normalize                               the mean/std statistics       *)
(*   trainer                                 Conservative.train_step       *)
(* The variables of the programs that do not run keep the value Idle.      *)
(*                                                                         *)
(* Numbers: designs, scores and predictions are integers (one feature per  *)
(* design).  A value that may be None is None or Some(v); a float that may *)
(* be not-a-number is NaN or Num(v).                                       *)
(***************************************************************************)
EXTENDS Integers, Sequences, FiniteSets, TLC

VARIABLES
    prog,            \* the program this run executes
    \* ---- csm / conservative_ensemble / reinforce ----
    config,          \* the config mapping of the run
    forward_models,  \* the trained surrogates (ensemble members)
    oracle,          \* the task's true score function
    oracle_alt,      \* a second oracle: the same run replayed against it
    stats,           \* [mu_x, st_x, mu_y, st_y]
    x,               \* the candidate batch (reinforce: the sampler parameter)
    x_alt,           \* the candidate batch of the replay against oracle_alt
    i,               \* solver step / iteration counter
    pc,              \* position in the program
    best_score,      \* best_score
    best_solution,   \* best_solution / best_design
    score_log,       \* every task.score call: step, solution, argument, result
    pred_log,        \* every logged surrogate prediction
    rendered,        \* every render_video call: iteration and design
    saved,           \* what np.save wrote: None or Some(the arrays)
    \* ---- online ----
    trainer,         \* the trainer's step, done mask, solution, prediction
    evaluations,     \* evaluations (nonlocal of evaluate_solution)
    score,           \* score (nonlocal of evaluate_solution)
    scores,          \* scores
    predictions,     \* predictions
    e,               \* the epoch of the for loop
    b,               \* minibatches consumed in the current data loop
    \* ---- launcher (coms_cleaned/experiments.py) ----
    launch,          \* the command and its options
    ray,             \* ray.init's arguments, None before the call
    task_name,       \* task_name
    raised,          \* the exception that left the command, or None
    tune,            \* tune.run's arguments, None while it was not called
    lpc,             \* position in the command
    \* ---- entry points with a checkpoint manager ----
    entry_point,     \* the entry point and its config['epochs']
    trained,         \* per trainer: None before it is built, else Some(the
                     \* epochs its variables have been trained for)
    ckpt,            \* per manager directory: the checkpoint on disk
    ops_log,         \* the manager and trainer calls of this invocation
    epos,            \* the next statement of the entry point
    invocation,      \* how many times the entry point has been invoked
    \* ---- the normalization preamble of csm and online ----
    norm_config,     \* the entry point, the array, its dtype and the flags
    column,          \* one feature column of task.x or task.y (then of the
                     \* centred and of the normalized array)
    mu_stat,         \* mu_x or mu_y of that column
    np_std,          \* what np.std returned for that column
    st_stat,         \* st_x or st_y of that column
    finite,          \* FALSE once the column holds inf or nan
    npc,             \* position in the preamble
    \* ---- forward_model.trainers.Conservative ----
    log_alpha,       \* the tf.Variable behind alpha = exp(log_alpha)
    alpha_optim,     \* the optimizer of log_alpha and its slots
    gap_log,         \* per train_step: the least and the greatest
                     \* conservative gap of the batch
    alpha_log,       \* alpha at construction and after every train_step
    fm_params,       \* the forward model's trainable variables
    optim,           \* the optimizer of the forward model and its slots
    after_model_step,\* the trainer's state between the two apply_gradients
                     \* calls of the last train_step
    validations,     \* how many validate_step results were returned
    \* ---- the relaxation of a discrete design ----
    relax,           \* the entry point, the number of categories, the
                     \* discrete_clip and the category of the one-hot position
    initial_x,       \* the logits of that position, once computed
    decoded,         \* the argmax of the distribution mapped back from them
    \* ---- the choice of the starting candidates ----
    topk_config,     \* the entry point, K and normalize_ys
    task_y,          \* the observed labels of the dataset, by design index
    indices,         \* the indices tf.math.top_k returned
    \* ---- two runs on the same seed and inputs ----
    runs,            \* the inputs, and each run's generator state and draws
    \* ---- the scaling of the learning rates ----
    scaling,         \* the task, the config dict, what each call handed on
    \* ---- the evaluation schedule of online ----
    schedule         \* the fractions, the sizes, what the trainer was given

\* what every run program uses
runVars == <<config, forward_models, oracle, stats, pc, score_log, pred_log,
             saved>>
\* what only the solver loops use
solverVars == <<oracle_alt, x, x_alt, i, best_score, best_solution,
                rendered>>
\* what only online uses
onlineVars == <<trainer, evaluations, score, scores, predictions, e, b>>

\* the variables of the programs that are no run of a search
launcherVars == <<launch, ray, task_name, raised, tune, lpc>>
entryVars == <<entry_point, trained, ckpt, ops_log, epos, invocation>>
normVars == <<norm_config, column, mu_stat, np_std, st_stat, finite, npc>>
trainerVars == <<log_alpha, alpha_optim, gap_log, alpha_log, fm_params,
                 optim, after_model_step, validations>>
relaxVars == <<relax, initial_x, decoded>>
topkVars == <<topk_config, task_y, indices>>
otherVars == <<launcherVars, entryVars, normVars, trainerVars, relaxVars,
               topkVars, runs, scaling, schedule>>

vars == <<prog, runVars, solverVars, onlineVars, otherVars>>

Idle == "idle"

\* Python's None and a present value; a float that is NaN and one that is not
None == <<>>
Some(v) == <<v>>
NaN == <<>>
Num(v) == <<v>>

(***************************************************************************)
(* Bounds of the model.                                                    *)
(***************************************************************************)
MaxSolverSteps == 2
DesignVals == {-1, 0, 1}
OracleKinds == {"neg_sq", "linear"}
ModelKinds == {"up", "peak"}
SampleCounts == {1, 2}
EnsembleSizes == {1, 2}

(***************************************************************************)
(* Helpers.                                                                *)
(***************************************************************************)
Sign(v) == IF v > 0 THEN 1 ELSE IF v < 0 THEN -1 ELSE 0

RECURSIVE SumSeq(_)
SumSeq(s) == IF s = <<>> THEN 0 ELSE Head(s) + SumSeq(Tail(s))

\* floor division, also for a negative numerator
FloorDiv(a, d) == IF a >= 0 THEN a \div d ELSE -((-a + d - 1) \div d)

MaxOfSet(S) == CHOOSE m \in S : \A v \in S : v <= m

\* np.argmax: the first index of the maximum
ArgMax(s) == CHOOSE k \in 1..Len(s) :
                /\ \A j \in 1..Len(s) : s[j] <= s[k]
                /\ \A j \in 1..(k - 1) : s[j] < s[k]

(***************************************************************************)
(* The task's oracle and the surrogates.                                   *)
(***************************************************************************)
\* task.score / task.predict on one design
Oracle(kind, v) == IF kind = "neg_sq" THEN -(v * v) ELSE v

\* fm.get_distribution(v).mean() of one surrogate
Pred(kind, v) == IF kind = "peak" THEN -(v * v) ELSE v

\* tape.gradient(score, x) of one surrogate at v
Grad(kind, v) == IF kind = "peak" THEN -(2 * v) ELSE 1

LauncherIdle ==
    /\ launch = Idle /\ ray = Idle /\ task_name = Idle /\ raised = Idle
    /\ tune = Idle /\ lpc = Idle

TopkIdle == topk_config = Idle /\ task_y = Idle /\ indices = Idle

RelaxIdle == relax = Idle /\ initial_x = Idle /\ decoded = Idle

TrainerIdle ==
    /\ log_alpha = Idle /\ alpha_optim = Idle /\ gap_log = Idle
    /\ alpha_log = Idle /\ fm_params = Idle /\ optim = Idle
    /\ after_model_step = Idle /\ validations = Idle

NormIdle ==
    /\ norm_config = Idle /\ column = Idle /\ mu_stat = Idle
    /\ np_std = Idle /\ st_stat = Idle /\ finite = Idle /\ npc = Idle

EntryIdle ==
    /\ entry_point = Idle /\ trained = Idle /\ ckpt = Idle
    /\ ops_log = Idle
    /\ epos = Idle /\ invocation = Idle

(***************************************************************************)
(* csm / conservative_ensemble / reinforce: the state after the surrogates *)
(* have been trained and the top-k designs gathered.                       *)
(***************************************************************************)
SearchProgs == {"csm", "conservative_ensemble", "reinforce"}

\* mu and st of a normalized feature, or (0, 1) when normalization is off
StatPairs == {<<0, 1>>, <<1, 2>>}

Ensembles == UNION {[1..n -> ModelKinds] : n \in EnsembleSizes}

OtherOracle(o) == CHOOSE k \in OracleKinds : k # o

RunIdle ==
    /\ config = Idle /\ forward_models = Idle /\ oracle = Idle
    /\ stats = Idle /\ pc = Idle /\ score_log = Idle /\ pred_log = Idle
    /\ saved = Idle

SolverIdle ==
    /\ oracle_alt = Idle /\ x = Idle /\ x_alt = Idle /\ i = Idle
    /\ best_score = Idle /\ best_solution = Idle /\ rendered = Idle

OnlineIdle ==
    /\ trainer = Idle /\ evaluations = Idle /\ score = Idle
    /\ scores = Idle /\ predictions = Idle /\ e = Idle /\ b = Idle

SearchInit ==
    /\ runs = Idle /\ scaling = Idle /\ schedule = Idle
    /\ prog \in SearchProgs
    /\ forward_models \in Ensembles
    /\ oracle \in OracleKinds
    /\ oracle_alt = OtherOracle(oracle)
    /\ \E steps \in 0..MaxSolverSteps, k \in SampleCounts, ogt \in BOOLEAN :
          /\ prog # "reinforce" => ~ogt
          /\ config = [solver_steps |-> steps, iterations |-> steps,
                       solver_samples |-> k, solver_lr |-> 1,
                       optimize_ground_truth |-> ogt]
          /\ x \in [1..k -> DesignVals]
    /\ \E sx \in StatPairs, sy \in StatPairs :
          /\ prog # "csm" => sx = <<0, 1>>
          /\ prog = "reinforce" => sy = <<0, 1>>
          /\ stats = [mu_x |-> sx[1], st_x |-> sx[2],
                      mu_y |-> sy[1], st_y |-> sy[2]]
    /\ x_alt = x
    /\ i = 0
    /\ pc = "start"
    /\ best_score = None
    /\ best_solution = None
    /\ score_log = <<>>
    /\ pred_log = <<>>
    /\ rendered = <<>>
    /\ saved = None
    /\ OnlineIdle
    /\ LauncherIdle /\ EntryIdle /\ NormIdle /\ TrainerIdle
    /\ RelaxIdle /\ TopkIdle

\* solution * st_x + mu_x
DenormX(bt) == [k \in 1..Len(bt) |-> bt[k] * stats.st_x + stats.mu_x]

\* mean * st_y + mu_y
DenormY(bt) == [k \in 1..Len(bt) |-> bt[k] * stats.st_y + stats.mu_y]

\* CsmOracleArg without the denormalization
CsmOracleArg_Raw(solution) == solution

\* the design batch csm hands to task.score
CsmOracleArg(solution) == DenormX(solution)

\* the prediction csm logs for one surrogate
CsmLoggedPred(mean) == DenormY(mean)

\* one task.score call of csm, as the log keeps it
CsmScoreEntry(step, orc, solution) ==
    [step |-> step, solution |-> solution, arg |-> CsmOracleArg(solution),
     score |-> [k \in 1..Len(solution) |->
                    Oracle(orc, CsmOracleArg(solution)[k])]]

CsmPredEntry(step, solution) ==
    [step |-> step,
     mean |-> [n \in 1..Len(forward_models) |->
                  [k \in 1..Len(solution) |->
                      Pred(forward_models[n], solution[k])]],
     logged |-> [n \in 1..Len(forward_models) |->
                  CsmLoggedPred([k \in 1..Len(solution) |->
                      Pred(forward_models[n], solution[k])])]]

\* CsmNextX with a member drawn for every design of the batch
CsmNextX_PerDesign(xb, r, sc) ==
    [k \in 1..Len(xb) |->
        xb[k] + config.solver_lr *
            Grad(forward_models[((r + k) % Len(forward_models)) + 1], xb[k])]

\* x = x + config['solver_lr'] * grads[r]; sc is the oracle score in scope
CsmNextX(xb, r, sc) ==
    [k \in 1..Len(xb) |->
        xb[k] + config.solver_lr * Grad(forward_models[r], xb[k])]

\* "update the best design every iteration"
IsBetter(bs, sc) == bs = None \/ sc[ArgMax(sc)] > bs[1]

BestScoreAfter(bs, sc) ==
    IF IsBetter(bs, sc) THEN Some(sc[ArgMax(sc)]) ELSE bs

BestSolutionAfter(bs, bsol, sc, solution) ==
    IF IsBetter(bs, sc) THEN Some(solution[ArgMax(sc)]) ELSE bsol

\* csm, "evaluate the starting point"
CsmStart ==
    /\ prog = "csm" /\ pc = "start"
    /\ score_log' = Append(score_log, CsmScoreEntry(0, oracle, x))
    /\ pred_log' = Append(pred_log, CsmPredEntry(0, x))
    /\ best_solution' = None
    /\ best_score' = None
    /\ i' = 1
    /\ pc' = "loop"
    /\ UNCHANGED <<prog, otherVars, onlineVars, config, forward_models,
                   oracle, oracle_alt, stats, x, x_alt, rendered, saved>>

\* csm, one solver step with ensemble member r drawn by np.random.randint
CsmStep(r) ==
    /\ prog = "csm" /\ pc = "loop" /\ i <= config.solver_steps
    /\ LET last == score_log[Len(score_log)].score
           lastAlt == CsmScoreEntry(i, oracle_alt, x_alt).score
           nx == CsmNextX(x, r, last)
           entry == CsmScoreEntry(i, oracle, nx)
       IN /\ x' = nx
          /\ x_alt' = CsmNextX(x_alt, r, lastAlt)
          /\ score_log' = Append(score_log, entry)
          /\ pred_log' = Append(pred_log, CsmPredEntry(i, nx))
          /\ best_score' = BestScoreAfter(best_score, entry.score)
          /\ best_solution' = BestSolutionAfter(best_score, best_solution,
                                                entry.score, nx)
    /\ i' = i + 1
    /\ UNCHANGED <<prog, otherVars, onlineVars, config, forward_models,
                   oracle, oracle_alt, stats, pc, rendered, saved>>

\* "save the best design to the disk"
SaveBest ==
    /\ prog \in {"csm", "conservative_ensemble"}
    /\ pc = "loop" /\ i > config.solver_steps
    /\ saved' = Some([score |-> best_score, solution |-> best_solution])
    /\ pc' = "done"
    /\ UNCHANGED <<prog, otherVars, onlineVars, config, forward_models,
                   oracle, oracle_alt, stats, x, x_alt, i, best_score,
                   best_solution, rendered, score_log, pred_log>>

(***************************************************************************)
(* conservative_ensemble: one trainer over the whole ensemble; the task    *)
(* normalizes by itself (normalize_y=True), stats holds its y_mean, y_std. *)
(***************************************************************************)
\* trainer.get_distribution(v).mean(): the mean of the members' means
EnsemblePred(v) ==
    FloorDiv(SumSeq([n \in 1..Len(forward_models) |->
                        Pred(forward_models[n], v)]), Len(forward_models))

\* tape.gradient of the ensemble mean at v
EnsembleGrad(v) ==
    FloorDiv(SumSeq([n \in 1..Len(forward_models) |->
                        Grad(forward_models[n], v)]), Len(forward_models))

\* one task.score call of conservative_ensemble
CeScoreEntry(step, orc, solution) ==
    [step |-> step, solution |-> solution, arg |-> solution,
     score |-> [k \in 1..Len(solution) |-> Oracle(orc, solution[k])]]

CePredEntry(step, solution) ==
    [step |-> step,
     mean |-> <<[k \in 1..Len(solution) |-> EnsemblePred(solution[k])]>>,
     logged |-> <<DenormY([k \in 1..Len(solution) |->
                              EnsemblePred(solution[k])])>>]

\* x = x + config['solver_lr'] * grads; sc is the oracle score in scope
CeNextX(xb, sc) ==
    [k \in 1..Len(xb) |-> xb[k] + config.solver_lr * EnsembleGrad(xb[k])]

\* conservative_ensemble, "evaluate the initial design"
CeStart ==
    /\ prog = "conservative_ensemble" /\ pc = "start"
    /\ score_log' = Append(score_log, CeScoreEntry(0, oracle, x))
    /\ pred_log' = Append(pred_log, CePredEntry(0, x))
    /\ best_solution' = None
    /\ best_score' = None
    /\ i' = 1
    /\ pc' = "loop"
    /\ UNCHANGED <<prog, otherVars, onlineVars, config, forward_models,
                   oracle, oracle_alt, stats, x, x_alt, rendered, saved>>

\* conservative_ensemble, one solver step
CeStep ==
    /\ prog = "conservative_ensemble" /\ pc = "loop"
    /\ i <= config.solver_steps
    /\ LET last == score_log[Len(score_log)].score
           lastAlt == CeScoreEntry(i, oracle_alt, x_alt).score
           nx == CeNextX(x, last)
           entry == CeScoreEntry(i, oracle, nx)
       IN /\ x' = nx
          /\ x_alt' = CeNextX(x_alt, lastAlt)
          /\ score_log' = Append(score_log, entry)
          /\ pred_log' = Append(pred_log, CePredEntry(i, nx))
          /\ best_score' = BestScoreAfter(best_score, entry.score)
          /\ best_solution' = BestSolutionAfter(best_score, best_solution,
                                                entry.score, nx)
    /\ i' = i + 1
    /\ UNCHANGED <<prog, otherVars, onlineVars, config, forward_models,
                   oracle, oracle_alt, stats, pc, rendered, saved>>

(***************************************************************************)
(* reinforce: x is the sampler's mean parameter, a float.  A batch of two  *)
(* designs is sampled for the update (reinforce_batch_size = 2) and        *)
(* solver_samples designs for the evaluation; a sample is the mean plus a  *)
(* noise draw.  The Adam step on the loss is one unit along the gradient.  *)
(***************************************************************************)
AddF(a, d) == IF a = NaN THEN NaN ELSE Num(a[1] + d)

OracleF(kind, a) == IF a = NaN THEN NaN ELSE Num(Oracle(kind, a[1]))

EnsemblePredF(a) == IF a = NaN THEN NaN ELSE Num(EnsemblePred(a[1]))

\* the noise of the two training samples, and of the evaluated samples
TrainNoise == {<<-1, 1>>, <<1, -1>>, <<1, 1>>}
SolutionNoise == {<<-1, 1>>, <<1, -1>>}

\* ReinforceTy with the flag ignored: always the ground truth
ReinforceTy_AlwaysGroundTruth(orc, tx) ==
    [k \in 1..Len(tx) |-> OracleF(orc, tx[k])]

\* ty: task.predict(tx) if optimize_ground_truth, else the ensemble's mean
ReinforceTy(orc, tx) ==
    IF config.optimize_ground_truth
        THEN [k \in 1..Len(tx) |-> OracleF(orc, tx[k])]
        ELSE [k \in 1..Len(tx) |-> EnsemblePredF(tx[k])]

\* loss = -mean(log_prob(tx) * (ty - mean_y) / standard_dev_y) and the step
\* of rl_opt on it: with two samples the standardized scores are +1 and -1,
\* or 0 / 0 = nan when the two scores are equal
ReinforceUpdate(m, tx, ty) ==
    IF m = NaN \/ ty[1] = NaN \/ ty[2] = NaN \/ ty[1] = ty[2]
        THEN NaN
        ELSE Num(m[1] + Sign((ty[1][1] - ty[2][1]) * (tx[1][1] - tx[2][1])))

ReinforceScoreEntry(step, orc, solution) ==
    [step |-> step, solution |-> solution, arg |-> solution,
     score |-> [k \in 1..Len(solution) |-> OracleF(orc, solution[k])]]

\* "select the top 1 initial designs": the sampler starts at their mean
ReinforceInitSampler ==
    /\ prog = "reinforce" /\ pc = "start"
    /\ x' = Num(FloorDiv(SumSeq(x), Len(x)))
    /\ x_alt' = Num(FloorDiv(SumSeq(x_alt), Len(x_alt)))
    /\ pc' = "loop"
    /\ UNCHANGED <<prog, otherVars, onlineVars, config, forward_models,
                   oracle, oracle_alt, stats, i, best_score, best_solution,
                   rendered, score_log, pred_log, saved>>

\* np.argmax(np.reshape(score, [-1])): the first maximum, and the first nan
\* when the batch holds one
NpArgMaxF(sc) ==
    IF \E k \in 1..Len(sc) : sc[k] = NaN
        THEN CHOOSE k \in 1..Len(sc) :
                 sc[k] = NaN /\ \A j \in 1..(k - 1) : sc[j] # NaN
        ELSE ArgMax([k \in 1..Len(sc) |-> sc[k][1]])

\* RenderDue on every iteration
RenderDue_Every(iteration) == iteration >= 0

\* if iteration == config['iterations'] - 1
RenderDue(iteration) == iteration = config.iterations - 1

\* one iteration: sample, score, log prediction and loss, update the
\* sampler, evaluate and log a solution, render it in the last iteration
ReinforceIter(en, es) ==
    /\ prog = "reinforce" /\ pc = "loop" /\ i < config.iterations
    /\ LET tx == [k \in 1..2 |-> AddF(x, en[k])]
           txAlt == [k \in 1..2 |-> AddF(x_alt, en[k])]
           ty == ReinforceTy(oracle, tx)
           nx == ReinforceUpdate(x, tx, ty)
           solution == [k \in 1..config.solver_samples |-> AddF(nx, es[k])]
           scored == ReinforceScoreEntry(i, oracle, solution)
       IN /\ pred_log' = Append(pred_log, [step |-> i, prediction |-> ty,
                                           sampler |-> x])
          /\ x' = nx
          /\ x_alt' = ReinforceUpdate(x_alt, txAlt,
                                      ReinforceTy(oracle_alt, txAlt))
          /\ score_log' = Append(score_log, scored)
          /\ rendered' =
                IF RenderDue(i)
                    THEN Append(rendered,
                                [iteration |-> i,
                                 design |-> solution[NpArgMaxF(scored.score)]])
                    ELSE rendered
    /\ i' = i + 1
    /\ UNCHANGED <<prog, otherVars, onlineVars, config, forward_models,
                   oracle, oracle_alt, stats, pc, best_score, best_solution,
                   saved>>

\* the for loop is exhausted
ReinforceEnd ==
    /\ prog = "reinforce" /\ pc = "loop" /\ i >= config.iterations
    /\ pc' = "done"
    /\ UNCHANGED <<prog, otherVars, onlineVars, config, forward_models,
                   oracle, oracle_alt, stats, x, x_alt, i, best_score,
                   best_solution, rendered, score_log, pred_log, saved>>

(***************************************************************************)
(* online.  The trainer class lives in design_baselines.online.trainers:   *)
(* its train_step is modelled from the specification (section 4.5): it     *)
(* counts minibatches in trainer.step, moves the solution of the           *)
(* trajectories that are not done on every interval-th minibatch after the *)
(* warmup, and marks trajectories done; a done trajectory stays done.      *)
(***************************************************************************)
MaxEpochs == 3
EvaluateStepsChoices == {{}, {2}, {1, 3}}
\* solver_interval and solver_warmup count epochs: <<numerator, denominator>>
IntervalChoices == {<<1, 2>>, <<1, 1>>}
WarmupChoices == {<<0, 1>>, <<1, 1>>}
DatasetSizes == {3, 4}
BatchSizes == {1, 2}

\* A Python float is a binary floating-point number.  The model keeps a
\* float as an integer count of 1/65536 and rounds every result to the
\* nearest number of thirteen significant bits, ties to even: the fractions
\* 1/2 and 1 and the small sizes are exact, 29/100 is not.
FloatRound(v) ==
    LET n == CHOOSE n \in 0..30 : 2 ^ n <= v /\ v < 2 ^ (n + 1)
        q == IF n >= 12 THEN 2 ^ (n - 12) ELSE 1
        r == (2 * v + q) \div (2 * q)
    IN IF v = 0 THEN 0
       ELSE IF (2 * v + q) % (2 * q) = 0 /\ r % 2 = 1 THEN q * (r - 1)
       ELSE q * r

\* the float of the literal fr[1] / fr[2] of a config
FloatOf(fr) == FloatRound((2 * fr[1] * 65536 + fr[2]) \div (2 * fr[2]))

\* int(fraction * (x.shape[0] - val_size) / batch_size): a float product,
\* a float quotient, and int() truncating the quotient
MinibatchesOf(fr, cfg) ==
    LET product == FloatRound(FloatOf(fr) * (cfg.N - cfg.val_size))
        quotient == FloatRound((2 * product + cfg.batch_size)
                                   \div (2 * cfg.batch_size))
    IN quotient \div 65536

\* floor(fraction * (x.shape[0] - val_size) / batch_size) of the rationals
ExactFloorOf(fr, cfg) ==
    (fr[1] * (cfg.N - cfg.val_size)) \div (fr[2] * cfg.batch_size)

\* the number of minibatches of a split of n examples
NumBatches(n, batch_size) == (n + batch_size - 1) \div batch_size

AllDone(t) == \A k \in 1..Len(t.done) : t.done[k]

OnlineInit ==
    /\ runs = Idle /\ scaling = Idle /\ schedule = Idle
    /\ prog = "online"
    /\ \E ep \in 0..MaxEpochs, n \in DatasetSizes, bs \in BatchSizes,
          si \in IntervalChoices, sw \in WarmupChoices,
          es \in EvaluateStepsChoices :
          /\ config = [epochs |-> ep, N |-> n, val_size |-> 1,
                       batch_size |-> bs, solver_interval |-> si,
                       solver_warmup |-> sw, evaluate_steps |-> es,
                       solver_lr |-> 1]
          /\ \E ix \in [1..bs -> {0, 1}] :
                trainer = [step |-> 0,
                           solver_interval |-> MinibatchesOf(si, config),
                           solver_warmup |-> MinibatchesOf(sw, config),
                           solution |-> ix,
                           done |-> [k \in 1..bs |-> FALSE],
                           particle_prediction |-> None]
          /\ pc = IF ep = 0 THEN "save" ELSE "train"
    /\ forward_models \in [1..1 -> ModelKinds]
    /\ oracle = "neg_sq"
    /\ \E sx \in StatPairs :
          stats = [mu_x |-> sx[1], st_x |-> sx[2],
                   mu_y |-> sx[1], st_y |-> sx[2]]
    /\ evaluations = 0
    /\ score = None
    /\ scores = <<>>
    /\ predictions = <<>>
    /\ e = 0
    /\ b = 0
    /\ score_log = <<>>
    /\ pred_log = <<>>
    /\ saved = None
    /\ SolverIdle
    /\ LauncherIdle /\ EntryIdle /\ NormIdle /\ TrainerIdle
    /\ RelaxIdle /\ TopkIdle

\* EvalDue without the warmup test
EvalDue_NoWarmup(step, interval, warmup) == step % interval = 0

\* the condition of "evaluate the current solution"
EvalDue(step, interval, warmup) == step % interval = 0 /\ step >= warmup

\* trainer.train_step: nd is the set of trajectories that become done
TrainerTrainStep(t, nd) ==
    LET step == t.step + 1
        search == /\ t.solver_interval > 0
                  /\ EvalDue(step, t.solver_interval, t.solver_warmup)
        sol == [k \in 1..Len(t.solution) |->
                   IF search /\ ~t.done[k]
                       THEN t.solution[k] + config.solver_lr *
                                Grad(forward_models[1], t.solution[k])
                       ELSE t.solution[k]]
    IN [t EXCEPT !.step = step,
                 !.solution = sol,
                 !.done = [k \in 1..Len(t.done) |->
                              t.done[k] \/ (search /\ k \in nd)],
                 !.particle_prediction =
                     Some([k \in 1..Len(sol) |->
                              Pred(forward_models[1], sol[k])])]

\* CallsOracle by the evaluate_steps list alone
CallsOracle_OnlyListed(evals, sc) == evals \in config.evaluate_steps

\* CallsOracle without "or score is None"
CallsOracle_NoFirstCall(evals, sc) ==
    \/ evals \in config.evaluate_steps
    \/ config.evaluate_steps = {}

\* evaluate_solution: whether this evaluation calls task.score
CallsOracle(evals, sc) ==
    \/ evals \in config.evaluate_steps
    \/ config.evaluate_steps = {}
    \/ sc = None

\* evaluate_solution: the design batch handed to task.score
OnlineOracleArg(solution) == DenormX(solution)

\* evaluate_solution: the prediction recorded as oracle/prediction
OnlineLoggedPred(mean) == DenormY(mean)

OnlineScoreEntry(evals, solution) ==
    [step |-> evals, solution |-> solution, arg |-> OnlineOracleArg(solution),
     score |-> [k \in 1..Len(solution) |->
                    Oracle(oracle, OnlineOracleArg(solution)[k])]]

\* at is the value of trainer.step at the evaluation
OnlinePredEntry(evals, at, solution) ==
    LET mean == [k \in 1..Len(solution) |->
                    Pred(forward_models[1], solution[k])]
    IN [step |-> evals, at |-> at, mean |-> <<mean>>,
        logged |-> <<OnlineLoggedPred(mean)>>]

\* OnlineTrainStep that leaves the loop as soon as every trajectory is done
OnlineTrainStep_BreakWhenDone(nd) ==
    /\ prog = "online" /\ pc = "train"
    /\ LET t == TrainerTrainStep(trainer, nd)
           evals == evaluations + 1
           entry == OnlineScoreEntry(evals, t.solution)
           last == NumBatches(config.N - config.val_size, config.batch_size)
       IN /\ trainer' = t
          /\ IF t.solver_interval = 0
                THEN /\ pc' = "crashed"
                     /\ UNCHANGED <<evaluations, score, scores, predictions,
                                    score_log, pred_log, b>>
                ELSE /\ pc' = IF AllDone(t) THEN "save"
                              ELSE IF b + 1 = last THEN "validate"
                              ELSE "train"
                     /\ b' = IF b + 1 = last THEN 0 ELSE b + 1
                     /\ IF EvalDue(t.step, t.solver_interval, t.solver_warmup)
                           THEN /\ evaluations' = evals
                                /\ pred_log' = Append(pred_log,
                                       OnlinePredEntry(evals, t.step,
                                                       t.solution))
                                /\ IF CallsOracle(evals, score)
                                      THEN /\ score' = Some(entry.score)
                                           /\ score_log' =
                                                  Append(score_log, entry)
                                      ELSE UNCHANGED <<score, score_log>>
                                /\ scores' = Append(scores, score')
                                /\ predictions' = Append(predictions,
                                                      t.particle_prediction)
                           ELSE UNCHANGED <<evaluations, score, scores,
                                            predictions, score_log, pred_log>>
    /\ UNCHANGED <<prog, otherVars, solverVars, config, forward_models,
                   oracle, stats, saved, e>>

\* one minibatch of "for x, y in train_data": train_step, and the
\* evaluation when it is due
OnlineTrainStep(nd) ==
    /\ prog = "online" /\ pc = "train"
    /\ LET t == TrainerTrainStep(trainer, nd)
           evals == evaluations + 1
           entry == OnlineScoreEntry(evals, t.solution)
           last == NumBatches(config.N - config.val_size, config.batch_size)
       IN /\ trainer' = t
          /\ IF t.solver_interval = 0
                \* tf.math.mod(trainer.step, 0) raises
                THEN /\ pc' = "crashed"
                     /\ UNCHANGED <<evaluations, score, scores, predictions,
                                    score_log, pred_log, b>>
                ELSE /\ pc' = IF b + 1 = last THEN "validate" ELSE "train"
                     /\ b' = IF b + 1 = last THEN 0 ELSE b + 1
                     /\ IF EvalDue(t.step, t.solver_interval, t.solver_warmup)
                           THEN /\ evaluations' = evals
                                /\ pred_log' = Append(pred_log,
                                       OnlinePredEntry(evals, t.step,
                                                       t.solution))
                                /\ IF CallsOracle(evals, score)
                                      THEN /\ score' = Some(entry.score)
                                           /\ score_log' =
                                                  Append(score_log, entry)
                                      ELSE UNCHANGED <<score, score_log>>
                                /\ scores' = Append(scores, score')
                                /\ predictions' = Append(predictions,
                                                      t.particle_prediction)
                           ELSE UNCHANGED <<evaluations, score, scores,
                                            predictions, score_log, pred_log>>
    /\ UNCHANGED <<prog, otherVars, solverVars, config, forward_models,
                   oracle, stats, saved, e>>

\* OnlineValidateStep with an evaluation of the solution after validate_step
OnlineValidateStep_Evaluating ==
    /\ prog = "online" /\ pc = "validate"
    /\ LET last == NumBatches(config.val_size, config.batch_size)
       IN /\ pc' = IF b + 1 = last THEN "check" ELSE "validate"
          /\ b' = IF b + 1 = last THEN 0 ELSE b + 1
    /\ evaluations' = evaluations + 1
    /\ UNCHANGED <<prog, otherVars, solverVars, config, forward_models,
                   oracle, stats, saved, score_log, pred_log, trainer, score,
                   scores, predictions, e>>

\* one minibatch of "for x, y in validate_data": validate_step
OnlineValidateStep ==
    /\ prog = "online" /\ pc = "validate"
    /\ LET last == NumBatches(config.val_size, config.batch_size)
       IN /\ pc' = IF b + 1 = last THEN "check" ELSE "validate"
          /\ b' = IF b + 1 = last THEN 0 ELSE b + 1
    /\ UNCHANGED <<prog, otherVars, solverVars, config, forward_models,
                   oracle, stats, saved, score_log, pred_log, trainer,
                   evaluations, score, scores, predictions, e>>

\* OnlineCheckDone without the break
OnlineCheckDone_NoBreak ==
    /\ prog = "online" /\ pc = "check"
    /\ e' = e + 1
    /\ pc' = IF e + 1 < config.epochs THEN "train" ELSE "save"
    /\ UNCHANGED <<prog, otherVars, solverVars, config, forward_models,
                   oracle, stats, saved, score_log, pred_log, trainer,
                   evaluations, score, scores, predictions, b>>

\* OnlineCheckDone with range(config['epochs'] + 1)
OnlineCheckDone_OneMoreEpoch ==
    /\ prog = "online" /\ pc = "check"
    /\ IF AllDone(trainer)
          THEN pc' = "save" /\ e' = e
          ELSE /\ e' = e + 1
               /\ pc' = IF e + 1 < config.epochs + 1 THEN "train" ELSE "save"
    /\ UNCHANGED <<prog, otherVars, solverVars, config, forward_models,
                   oracle, stats, saved, score_log, pred_log, trainer,
                   evaluations, score, scores, predictions, b>>

\* "if tf.reduce_all(trainer.done): break", else the next epoch
OnlineCheckDone ==
    /\ prog = "online" /\ pc = "check"
    /\ IF AllDone(trainer)
          THEN pc' = "save" /\ e' = e
          ELSE /\ e' = e + 1
               /\ pc' = IF e + 1 < config.epochs THEN "train" ELSE "save"
    /\ UNCHANGED <<prog, otherVars, solverVars, config, forward_models,
                   oracle, stats, saved, score_log, pred_log, trainer,
                   evaluations, score, scores, predictions, b>>

\* "save the model predictions and scores": np.concatenate and np.stack
\* raise on an empty list
OnlineSave ==
    /\ prog = "online" /\ pc = "save"
    /\ IF scores = <<>>
          THEN pc' = "crashed" /\ saved' = saved
          ELSE /\ pc' = "done"
               /\ saved' = Some([scores |-> scores,
                                 predictions |-> predictions])
    /\ UNCHANGED <<prog, otherVars, solverVars, config, forward_models,
                   oracle, stats, score_log, pred_log, onlineVars>>

DoneChoices == {{}, {1}, {1, 2}}

(***************************************************************************)
(* The launcher commands of coms_cleaned/experiments.py.                   *)
(***************************************************************************)
MaxCpus == 3
MaxGpus == 2
MaxParallel == 3

DifficultyCommands == {"gfp", "aav", "gb1"}
Commands == DifficultyCommands \cup {"dkitty"}
\* values of --difficulty: the keys of the tables and two that are no key
Difficulties == {"medium", "hard", "easy", "none", "expert", ""}

\* difficulty_2_task of a command, in the order the dict literal lists it
Difficulty2Task(command) ==
    IF command = "gfp"
        THEN << <<"medium", "GFP-TransformerMedium-v0">>,
                <<"hard", "GFP-TransformerHard-v0">>,
                <<"easy", "GFP-TransformerEasy-v0">>,
                <<"none", "GFP-v0">> >>
    ELSE IF command = "aav"
        THEN << <<"medium", "AAV-FixedLength-v0">>,
                <<"hard", "AAV-FixedLengthHard-v0">>,
                <<"easy", "AAV-FixedLengthEasy-v0">> >>
    ELSE << <<"medium", "GB1-FixedLength-v0">>,
            <<"hard", "GB1-FixedLengthHard-v0">>,
            <<"easy", "GB1-FixedLengthEasy-v0">> >>

\* difficulty_2_task.keys()
DifficultyKeys(command) ==
    [n \in 1..Len(Difficulty2Task(command)) |-> Difficulty2Task(command)[n][1]]

\* DifficultyLookup falling back to 'medium' for an unknown key
DifficultyLookup_Default(command, difficulty) ==
    LET table == Difficulty2Task(command)
        hits == {n \in 1..Len(table) : table[n][1] = difficulty}
    IN IF hits = {} THEN Some(table[1][2])
       ELSE Some(table[CHOOSE n \in hits : TRUE][2])

\* difficulty_2_task[difficulty]: Some(task), or None for a KeyError
DifficultyLookup(command, difficulty) ==
    LET table == Difficulty2Task(command)
        hits == {n \in 1..Len(table) : table[n][1] = difficulty}
    IN IF hits = {} THEN None ELSE Some(table[CHOOSE n \in hits : TRUE][2])

\* the NotImplementedError of the except clause; levels is what
\* ",".join(difficulty_2_task.keys()) lists, in order
DifficultyError(command) ==
    [type |-> "NotImplementedError",
     text |-> "The currently supported difficulty levels are: ",
     levels |-> DifficultyKeys(command)]

\* resources_per_trial: cpu = cpus // num_parallel and
\* gpu = gpus / num_parallel - 0.01 as the fraction gpu_num / gpu_den
ResourcesPerTrial(cpus, gpus, num_parallel) ==
    [cpu |-> cpus \div num_parallel,
     gpu_num |-> 100 * gpus - num_parallel,
     gpu_den |-> 100 * num_parallel]

LauncherInit ==
    /\ runs = Idle /\ scaling = Idle /\ schedule = Idle
    /\ prog = "launcher"
    /\ \E c \in Commands, d \in Difficulties, cpus \in 1..MaxCpus,
          gpus \in 0..MaxGpus, np \in 1..MaxParallel :
          /\ c \notin DifficultyCommands => d = "medium"
          /\ launch = [command |-> c, difficulty |-> d, cpus |-> cpus,
                       gpus |-> gpus, num_parallel |-> np]
    /\ ray = None
    /\ task_name = None
    /\ raised = None
    /\ tune = None
    /\ lpc = "start"
    /\ RunIdle /\ SolverIdle /\ OnlineIdle /\ EntryIdle /\ NormIdle
    /\ TrainerIdle /\ RelaxIdle /\ TopkIdle

\* ray.init(num_cpus=cpus, num_gpus=gpus, ...)
LaunchRayInit ==
    /\ prog = "launcher" /\ lpc = "start"
    /\ ray' = Some([num_cpus |-> launch.cpus, num_gpus |-> launch.gpus])
    /\ IF launch.command \in DifficultyCommands
          THEN lpc' = "lookup" /\ task_name' = task_name
          ELSE lpc' = "tune" /\ task_name' = Some("DKittyMorphology-v0")
    /\ UNCHANGED <<prog, runVars, solverVars, onlineVars, entryVars,
                   normVars, trainerVars, relaxVars, topkVars, launch,
                   raised, tune, runs, scaling, schedule>>

\* the try block of gfp, aav and gb1
LaunchLookup ==
    /\ prog = "launcher" /\ lpc = "lookup"
    /\ LET found == DifficultyLookup(launch.command, launch.difficulty)
       IN IF found = None
             THEN /\ raised' = Some(DifficultyError(launch.command))
                  /\ lpc' = "raised"
                  /\ task_name' = task_name
             ELSE /\ task_name' = found
                  /\ lpc' = "tune"
                  /\ raised' = raised
    /\ UNCHANGED <<prog, runVars, solverVars, onlineVars, entryVars,
                   normVars, trainerVars, relaxVars, topkVars, launch, ray,
                   tune, runs, scaling, schedule>>

\* tune.run(coms_cleaned, config={..., "task": task_name, ...}, ...)
LaunchTuneRun ==
    /\ prog = "launcher" /\ lpc = "tune"
    /\ tune' = Some([task |-> task_name[1],
                     resources_per_trial |->
                         ResourcesPerTrial(launch.cpus, launch.gpus,
                                           launch.num_parallel)])
    /\ lpc' = "done"
    /\ UNCHANGED <<prog, runVars, solverVars, onlineVars, entryVars,
                   normVars, trainerVars, relaxVars, topkVars, launch, ray,
                   task_name, raised, runs, scaling, schedule>>

(***************************************************************************)
(* The entry points that create a tf.train.CheckpointManager, from the     *)
(* creation of the manager to the start of the solver loop.  A trainer is  *)
(* summarized by the number of epochs its variables were trained for.      *)
(***************************************************************************)
MaxTrainEpochs == 2
MaxInvocations == 2

EntryPoints == {"conservative_ensemble", "conservative_ensemble_predictions",
                "reinforce"}

\* the managers an entry point creates, by checkpoint directory
ManagersOf(name) ==
    IF name = "conservative_ensemble" THEN {"ckpt"}
    ELSE IF name = "conservative_ensemble_predictions"
        THEN {"conservative", "vanilla"}
    ELSE {"ensemble"}

AllManagers == {"ckpt", "conservative", "vanilla", "ensemble"}

\* the manager and trainer calls of an entry point, in program order
Script(name) ==
    IF name = "conservative_ensemble"
        THEN << <<"restore_or_initialize", "ckpt">>,
                <<"launch", "ckpt">>,
                <<"save", "ckpt">> >>
    ELSE IF name = "conservative_ensemble_predictions"
        THEN << <<"restore_or_initialize", "conservative">>,
                <<"launch", "conservative">>,
                <<"save", "conservative">>,
                <<"restore_or_initialize", "vanilla">>,
                <<"launch", "vanilla">>,
                <<"save", "vanilla">> >>
    ELSE << <<"restore_or_initialize", "ensemble">>,
            <<"launch", "ensemble">> >>

EntryInit ==
    /\ runs = Idle /\ scaling = Idle /\ schedule = Idle
    /\ prog = "entry"
    /\ \E name \in EntryPoints, ep \in 0..MaxTrainEpochs :
          entry_point = [name |-> name, epochs |-> ep]
    /\ trained = [m \in AllManagers |-> None]
    /\ ckpt = [m \in AllManagers |-> None]
    /\ ops_log = <<>>
    /\ epos = 1
    /\ invocation = 1
    /\ RunIdle /\ SolverIdle /\ OnlineIdle /\ LauncherIdle /\ NormIdle
    /\ TrainerIdle /\ RelaxIdle /\ TopkIdle

NextOp == Script(entry_point.name)[epos]

\* EntryRestore that always starts from freshly initialized variables
EntryRestore_AlwaysInitialize ==
    /\ prog = "entry" /\ epos <= Len(Script(entry_point.name))
    /\ NextOp[1] = "restore_or_initialize"
    /\ trained' = [trained EXCEPT ![NextOp[2]] = Some(0)]
    /\ ops_log' = Append(ops_log, NextOp)
    /\ epos' = epos + 1
    /\ UNCHANGED <<prog, runVars, solverVars, onlineVars, launcherVars,
                   normVars, trainerVars, relaxVars, topkVars, entry_point,
                   ckpt, invocation, runs, scaling, schedule>>

\* manager.restore_or_initialize(): the latest checkpoint if there is one,
\* else the freshly initialized variables
EntryRestore ==
    /\ prog = "entry" /\ epos <= Len(Script(entry_point.name))
    /\ NextOp[1] = "restore_or_initialize"
    /\ trained' = [trained EXCEPT ![NextOp[2]] =
                      IF ckpt[NextOp[2]] = None THEN Some(0)
                      ELSE ckpt[NextOp[2]]]
    /\ ops_log' = Append(ops_log, NextOp)
    /\ epos' = epos + 1
    /\ UNCHANGED <<prog, runVars, solverVars, onlineVars, launcherVars,
                   normVars, trainerVars, relaxVars, topkVars, entry_point,
                   ckpt, invocation, runs, scaling, schedule>>

\* trainer.launch(train_data, validate_data, logger, epochs)
EntryLaunch ==
    /\ prog = "entry" /\ epos <= Len(Script(entry_point.name))
    /\ NextOp[1] = "launch"
    /\ trained' = [trained EXCEPT ![NextOp[2]] =
                      Some(trained[NextOp[2]][1] + entry_point.epochs)]
    /\ ops_log' = Append(ops_log, NextOp)
    /\ epos' = epos + 1
    /\ UNCHANGED <<prog, runVars, solverVars, onlineVars, launcherVars,
                   normVars, trainerVars, relaxVars, topkVars, entry_point,
                   ckpt, invocation, runs, scaling, schedule>>

\* manager.save(): max_to_keep is 1, the new checkpoint replaces the old
EntrySave ==
    /\ prog = "entry" /\ epos <= Len(Script(entry_point.name))
    /\ NextOp[1] = "save"
    /\ ckpt' = [ckpt EXCEPT ![NextOp[2]] = trained[NextOp[2]]]
    /\ ops_log' = Append(ops_log, NextOp)
    /\ epos' = epos + 1
    /\ UNCHANGED <<prog, runVars, solverVars, onlineVars, launcherVars,
                   normVars, trainerVars, relaxVars, topkVars, entry_point,
                   trained, invocation, runs, scaling, schedule>>

\* the entry point is invoked again with the same logging_dir: a new
\* process, new trainers, the checkpoint directories as they were left
EntryInvokeAgain ==
    /\ prog = "entry" /\ epos > Len(Script(entry_point.name))
    /\ invocation < MaxInvocations
    /\ invocation' = invocation + 1
    /\ trained' = [m \in AllManagers |-> None]
    /\ ops_log' = <<>>
    /\ epos' = 1
    /\ UNCHANGED <<prog, runVars, solverVars, onlineVars, launcherVars,
                   normVars, trainerVars, relaxVars, topkVars, entry_point,
                   ckpt, runs, scaling, schedule>>

(***************************************************************************)
(* The normalization preamble of csm and online, for one feature column.   *)
(* Numbers are fixed-point: float64 values are integers, float32 values    *)
(* are the multiples of F32Quantum, and 1.0 is One.  A cast to float32     *)
(* rounds to the nearest float32 value, ties to even, so a small nonzero   *)
(* float64 value underflows to 0.                                          *)
(***************************************************************************)
MaxDataValue == 8
F32Quantum == 4
One == 8
ColumnLen == 2

\* v.astype(np.float32)
Cast32(v) ==
    LET q == FloorDiv(v, F32Quantum)
        r == v - q * F32Quantum
    IN IF 2 * r < F32Quantum THEN q * F32Quantum
       ELSE IF 2 * r > F32Quantum THEN (q + 1) * F32Quantum
       ELSE IF q % 2 = 0 THEN q * F32Quantum
       ELSE (q + 1) * F32Quantum

\* the result of an operation in the dtype of its operands
InDtype(dtype, v) == IF dtype = "float32" THEN Cast32(v) ELSE v

ISqrt(n) == CHOOSE r \in 0..n : r * r <= n /\ n < (r + 1) * (r + 1)

\* np.mean(a, axis=0, keepdims=True)
NpMean(dtype, col) == InDtype(dtype, FloorDiv(SumSeq(col), Len(col)))

\* np.std(a, axis=0, keepdims=True): sqrt(mean(abs(a - a.mean()) ** 2))
NpStd(dtype, col) ==
    LET m == FloorDiv(SumSeq(col), Len(col))
        sq == [k \in 1..Len(col) |-> (col[k] - m) * (col[k] - m)]
    IN InDtype(dtype, ISqrt(FloorDiv(SumSeq(sq), Len(col))))

\* np.where(np.equal(st, 0), 1, st)
ClampZero(sd) == IF sd = 0 THEN One ELSE sd

\* csm replaces a zero before the cast to float32
CsmSt(sd) == Cast32(ClampZero(sd))

\* online replaces a zero after the cast to float32
OnlineSt(sd) == ClampZero(Cast32(sd))

\* config['normalize_ys'], or config['normalize_xs'] and not is_discrete
NormEnabled(cfg) ==
    IF cfg.array = "y" THEN cfg.normalize
    ELSE cfg.normalize /\ ~cfg.is_discrete

\* task.y is float32; task.x is float32 or float64
DtypesOf(array) ==
    IF array = "y" THEN {"float32"} ELSE {"float32", "float64"}

ColumnsOf(dtype) ==
    IF dtype = "float32"
        THEN [1..ColumnLen ->
                 {v \in 0..MaxDataValue : v % F32Quantum = 0}]
        ELSE [1..ColumnLen -> {v \in 0..MaxDataValue : v % 2 = 0}]

NormInit ==
    /\ runs = Idle /\ scaling = Idle /\ schedule = Idle
    /\ prog = "normalize"
    /\ \E algo \in {"csm", "online"}, array \in {"x", "y"},
          nz \in BOOLEAN, disc \in BOOLEAN :
          \E dtype \in DtypesOf(array) :
              /\ norm_config = [algo |-> algo, array |-> array,
                                dtype |-> dtype, normalize |-> nz,
                                is_discrete |-> disc]
              /\ column \in ColumnsOf(dtype)
    /\ mu_stat = None /\ np_std = None /\ st_stat = None
    /\ finite = TRUE
    /\ npc = "mean"
    /\ RunIdle /\ SolverIdle /\ OnlineIdle /\ LauncherIdle /\ EntryIdle
    /\ TrainerIdle /\ RelaxIdle /\ TopkIdle

\* mu = np.mean(...).astype(np.float32); a = a - mu
NormCentre ==
    /\ prog = "normalize" /\ npc = "mean" /\ NormEnabled(norm_config)
    /\ LET m == Cast32(NpMean(norm_config.dtype, column))
       IN /\ mu_stat' = Some(m)
          /\ column' = [k \in 1..Len(column) |-> column[k] - m]
    /\ npc' = "std"
    /\ UNCHANGED <<prog, runVars, solverVars, onlineVars, launcherVars,
                   entryVars, trainerVars, relaxVars, topkVars, norm_config,
                   np_std, st_stat, finite, runs, scaling, schedule>>

\* st = np.std(...), the replacement of zeros and the cast, in the order
\* of the entry point
NormStd ==
    /\ prog = "normalize" /\ npc = "std"
    /\ LET sd == NpStd(norm_config.dtype, column)
       IN /\ np_std' = Some(sd)
          /\ st_stat' = Some(IF norm_config.algo = "csm" THEN CsmSt(sd)
                             ELSE OnlineSt(sd))
    /\ npc' = "divide"
    /\ UNCHANGED <<prog, runVars, solverVars, onlineVars, launcherVars,
                   entryVars, trainerVars, relaxVars, topkVars, norm_config,
                   column, mu_stat, finite, runs, scaling, schedule>>

\* a = a / st
NormDivide ==
    /\ prog = "normalize" /\ npc = "divide"
    /\ IF st_stat[1] = 0
          THEN /\ finite' = FALSE
               /\ UNCHANGED column
          ELSE /\ column' = [k \in 1..Len(column) |->
                                FloorDiv(column[k] * One, st_stat[1])]
               /\ UNCHANGED finite
    /\ npc' = "done"
    /\ UNCHANGED <<prog, runVars, solverVars, onlineVars, launcherVars,
                   entryVars, trainerVars, relaxVars, topkVars, norm_config,
                   mu_stat, np_std, st_stat, runs, scaling, schedule>>

\* mu = np.zeros_like(a[:1]); st = np.ones_like(a[:1])
NormDisabled ==
    /\ prog = "normalize" /\ npc = "mean" /\ ~NormEnabled(norm_config)
    /\ mu_stat' = Some(0)
    /\ st_stat' = Some(One)
    /\ npc' = "done"
    /\ UNCHANGED <<prog, runVars, solverVars, onlineVars, launcherVars,
                   entryVars, trainerVars, relaxVars, topkVars, norm_config,
                   column, np_std, finite, runs, scaling, schedule>>

(***************************************************************************)
(* forward_model.trainers.Conservative: the Lagrange multiplier alpha.     *)
(* log_alpha is counted in optimizer steps of size alpha_lr, exp is        *)
(* modelled by powers of two, and the gradient of alpha_loss is summed     *)
(* over the batch instead of averaged (a positive factor).  Adam keeps its *)
(* first moment m with beta_1 = 0.9; the model keeps 10^t * m, an integer, *)
(* and moves log_alpha by one step against the sign of m.                  *)
(***************************************************************************)
MaxTrainSteps == 3
MaxValidations == 2
target_threshold == 10
BatchSize == 2

ConservativeVals == {target_threshold - 2, target_threshold,
                     target_threshold + 1}
\* the gaps of a batch: every example of a batch has the same gap
ConservativeBatches ==
    {[k \in 1..BatchSize |-> v] : v \in ConservativeVals}
AlphaOptims == {"Adam", "SGD"}
AlphaLrs == {0, 1}
InitialLogAlphas == {-1, 0, 1}

\* alpha = tfp.util.DeferredTensor(log_alpha, tf.exp)
Alpha(la) == 2 ^ (la + MaxTrainSteps + 2)

MinOf(sq) == CHOOSE v \in {sq[k] : k \in 1..Len(sq)} :
                 \A k \in 1..Len(sq) : v <= sq[k]
MaxOf(sq) == MaxOfSet({sq[k] : k \in 1..Len(sq)})

\* d alpha_loss / d log_alpha, where
\* alpha_loss = reduce_mean(alpha * target_threshold - alpha * conservative)
AlphaLossGrad_Descent(la, conservative) ==
    Alpha(la) * SumSeq([k \in 1..Len(conservative) |->
                           conservative[k] - target_threshold])

AlphaLossGrad(la, conservative) ==
    Alpha(la) * SumSeq([k \in 1..Len(conservative) |->
                           target_threshold - conservative[k]])

\* alpha_optim.apply_gradients(zip(grads, [log_alpha])): the new slots
OptimSlots(opt, g) ==
    IF opt.kind = "Adam"
        THEN [opt EXCEPT !.t = opt.t + 1,
                         !.m = 9 * opt.m + (10 ^ opt.t) * g]
        ELSE [opt EXCEPT !.t = opt.t + 1, !.m = g]

\* ... and the new value of the variable
OptimApply(opt, la, g) == la - opt.lr * Sign(OptimSlots(opt, g).m)

\* the gradients of the batch's mse and of its summed conservative gap with
\* respect to the forward model's (one) trainable variable
ModelGrads == {<<1, -1>>, <<-1, 1>>}

\* d total_loss / d forward_model.trainable_variables, where
\* total_loss = reduce_mean(mse + alpha * conservative)
TotalLossGrad(la, mg) == mg[1] + Alpha(la) * mg[2]

\* everything get_saveables would checkpoint
TrainerState ==
    [fm_params |-> fm_params, optim |-> optim,
     log_alpha |-> log_alpha, alpha_optim |-> alpha_optim]

\* ModelStep with log_alpha among the variables it steps
ModelStep_AlsoAlpha(st, g) ==
    [st EXCEPT !.fm_params = OptimApply(st.optim, st.fm_params, g),
               !.optim = OptimSlots(st.optim, g),
               !.log_alpha = OptimApply(st.optim, st.log_alpha, g)]

\* optim.apply_gradients(zip(grads, forward_model.trainable_variables))
ModelStep(st, g) ==
    [st EXCEPT !.fm_params = OptimApply(st.optim, st.fm_params, g),
               !.optim = OptimSlots(st.optim, g)]

\* alpha_optim.apply_gradients(zip(grads, [log_alpha]))
AlphaStep(st, g) ==
    [st EXCEPT !.log_alpha = OptimApply(st.alpha_optim, st.log_alpha, g),
               !.alpha_optim = OptimSlots(st.alpha_optim, g)]

TrainerInit ==
    /\ runs = Idle /\ scaling = Idle /\ schedule = Idle
    /\ prog = "trainer"
    /\ log_alpha \in InitialLogAlphas
    /\ \E kind \in AlphaOptims, lr \in AlphaLrs :
          alpha_optim = [kind |-> kind, lr |-> lr, t |-> 0, m |-> 0]
    /\ gap_log = <<>>
    /\ alpha_log = <<Alpha(log_alpha)>>
    /\ fm_params = 0
    /\ optim = [kind |-> "Adam", lr |-> 1, t |-> 0, m |-> 0]
    /\ after_model_step = None
    /\ validations = 0
    /\ RunIdle /\ SolverIdle /\ OnlineIdle /\ LauncherIdle /\ EntryIdle
    /\ NormIdle /\ RelaxIdle /\ TopkIdle

\* TrainStep with the alpha update first and the model gradient taken at
\* the updated alpha
TrainStep_AlphaFirst(conservative, mg) ==
    /\ prog = "trainer" /\ Len(gap_log) < MaxTrainSteps
    /\ LET g == AlphaLossGrad(log_alpha, conservative)
           s1 == AlphaStep(TrainerState, g)
           s2 == ModelStep(s1, TotalLossGrad(s1.log_alpha, mg))
       IN /\ after_model_step' = Some(s2)
          /\ fm_params' = s2.fm_params
          /\ optim' = s2.optim
          /\ log_alpha' = s2.log_alpha
          /\ alpha_optim' = s2.alpha_optim
          /\ alpha_log' = Append(alpha_log, Alpha(s2.log_alpha))
    /\ gap_log' = Append(gap_log, [min |-> MinOf(conservative),
                                   max |-> MaxOf(conservative)])
    /\ UNCHANGED <<prog, runVars, solverVars, onlineVars, launcherVars,
                   entryVars, normVars, relaxVars, topkVars, validations,
                   runs, scaling, schedule>>

\* Conservative.train_step on a batch whose conservative gaps and model
\* gradients are given: both gradients come from the tape, that is from
\* the state before the step
TrainStep(conservative, mg) ==
    /\ prog = "trainer" /\ Len(gap_log) < MaxTrainSteps
    /\ LET g_fm == TotalLossGrad(log_alpha, mg)
           g == AlphaLossGrad(log_alpha, conservative)
           s1 == ModelStep(TrainerState, g_fm)
           s2 == AlphaStep(s1, g)
       IN /\ after_model_step' = Some(s1)
          /\ fm_params' = s2.fm_params
          /\ optim' = s2.optim
          /\ log_alpha' = s2.log_alpha
          /\ alpha_optim' = s2.alpha_optim
          /\ alpha_log' = Append(alpha_log, Alpha(s2.log_alpha))
    /\ gap_log' = Append(gap_log, [min |-> MinOf(conservative),
                                   max |-> MaxOf(conservative)])
    /\ UNCHANGED <<prog, runVars, solverVars, onlineVars, launcherVars,
                   entryVars, normVars, relaxVars, topkVars, validations,
                   runs, scaling, schedule>>

\* ValidateStep run like a training step on log_alpha
ValidateStep_WithUpdates(conservative) ==
    /\ prog = "trainer" /\ validations < MaxValidations
    /\ validations' = validations + 1
    /\ log_alpha' =
           AlphaStep(TrainerState,
                     AlphaLossGrad(log_alpha, conservative)).log_alpha
    /\ UNCHANGED <<prog, runVars, solverVars, onlineVars, launcherVars,
                   entryVars, normVars, relaxVars, topkVars, alpha_optim,
                   gap_log, alpha_log, fm_params, optim, after_model_step,
                   runs, scaling, schedule>>

\* Conservative.validate_step: the forward passes with training=False and
\* the returned statistics; nothing is assigned
ValidateStep(conservative) ==
    /\ prog = "trainer" /\ validations < MaxValidations
    /\ validations' = validations + 1
    /\ UNCHANGED <<prog, runVars, solverVars, onlineVars, launcherVars,
                   entryVars, normVars, relaxVars, topkVars, log_alpha,
                   alpha_optim, gap_log, alpha_log, fm_params, optim,
                   after_model_step, runs, scaling, schedule>>

\* Conservative.validate: validate_step on every batch of the dataset
Validate(batches) ==
    /\ prog = "trainer" /\ validations + batches <= MaxValidations
    /\ validations' = validations + batches
    /\ UNCHANGED <<prog, runVars, solverVars, onlineVars, launcherVars,
                   entryVars, normVars, relaxVars, topkVars, log_alpha,
                   alpha_optim, gap_log, alpha_log, fm_params, optim,
                   after_model_step, runs, scaling, schedule>>

(***************************************************************************)
(* The relaxation of a discrete design at initialization and the way back  *)
(* in the evaluation, for one position of a one-hot design.  Numbers are   *)
(* fixed-point with 1.0 = RelaxOne; tensors are float32, so every tensor   *)
(* operation rounds to a multiple of F32Quantum.  A logarithm is finite,   *)
(* -inf or nan; log is 16 * log2 with linear interpolation.                *)
(***************************************************************************)
MaxCategories == 3
RelaxOne == 64

\* discrete_clip: a value float32 absorbs, the 0.6 of the experiments and
\* the default 5.0 of config.get('discrete_clip', 5.0)
ClipValues == {1, 38, 5 * RelaxOne}

\* tf.math.log
ExtLog(v) ==
    IF v < 0 THEN [kind |-> "nan", v |-> 0]
    ELSE IF v = 0 THEN [kind |-> "-inf", v |-> 0]
    ELSE LET n == CHOOSE n \in 0..30 : 2 ^ n <= v /\ v < 2 ^ (n + 1)
         IN [kind |-> "finite",
             v |-> 16 * n + FloorDiv(16 * (v - 2 ^ n), 2 ^ n)]

\* a - b on floats
ExtSub(a, d) ==
    IF a.kind = "nan" \/ d.kind = "nan" \/ (a.kind # "finite" /\ a = d)
        THEN [kind |-> "nan", v |-> 0]
    ELSE IF a.kind # "finite" THEN a
    ELSE IF d.kind = "-inf" THEN [kind |-> "inf", v |-> 0]
    ELSE IF d.kind = "inf" THEN [kind |-> "-inf", v |-> 0]
    ELSE [kind |-> "finite", v |-> a.v - d.v]

\* online: discrete_clip * initial_x + (1.0 - discrete_clip) * p, where
\* p = 1 / C
Smoothed(cfg, xv) ==
    Cast32(FloorDiv(cfg.clip * xv
                      + (RelaxOne - cfg.clip) * Cast32(RelaxOne \div cfg.C),
                    RelaxOne))

\* the logits of a position holding category cfg.c; online drops the
\* reference category 0, conservative_ensemble keeps all categories
ToLogits(cfg) ==
    LET onehot == [k \in 1..cfg.C |-> IF k = cfg.c + 1 THEN RelaxOne ELSE 0]
    IN IF cfg.algo = "online"
          THEN LET l == [k \in 1..cfg.C |->
                            ExtLog(Smoothed(cfg, onehot[k]))]
               IN [k \in 1..(cfg.C - 1) |-> ExtSub(l[k + 1], l[1])]
          ELSE [k \in 1..cfg.C |-> ExtLog(onehot[k])]

\* DistributionOf with the zero padded behind the logits
DistributionOf_PadBehind(cfg, xt) ==
    IF cfg.algo = "online"
        THEN xt \o <<[kind |-> "finite", v |-> 0]>>
        ELSE xt

\* the logits the softmax is taken of: online pads a zero in front and
\* divides by 0.001, conservative_ensemble takes x as it is
DistributionOf(cfg, xt) ==
    IF cfg.algo = "online"
        THEN <<[kind |-> "finite", v |-> 0]>>
                 \o [k \in 1..Len(xt) |-> [xt[k] EXCEPT !.v = 1000 * @]]
        ELSE xt

\* the categories argmax(softmax(z)) can return: softmax is nan everywhere
\* when an entry is nan or inf, and the argmax of nans is any index
ArgMaxOfSoftmax(z) ==
    IF \E k \in 1..Len(z) : z[k].kind \in {"nan", "inf"}
        THEN {k - 1 : k \in 1..Len(z)}
        ELSE {ArgMax([k \in 1..Len(z) |->
                         IF z[k].kind = "-inf" THEN -(2 ^ 30)
                         ELSE z[k].v]) - 1}

RelaxInit ==
    /\ runs = Idle /\ scaling = Idle /\ schedule = Idle
    /\ prog = "relax"
    /\ \E algo \in {"online", "conservative_ensemble"},
          C \in 2..MaxCategories, clip \in ClipValues :
          \E c \in 0..(C - 1) :
             /\ algo = "conservative_ensemble" => clip = 38
             /\ relax = [algo |-> algo, C |-> C, clip |-> clip, c |-> c]
    /\ initial_x = None
    /\ decoded = None
    /\ RunIdle /\ SolverIdle /\ OnlineIdle /\ LauncherIdle /\ EntryIdle
    /\ NormIdle /\ TrainerIdle /\ TopkIdle

\* "select the top k initial designs" and convert them to logits
RelaxToLogits ==
    /\ prog = "relax" /\ initial_x = None
    /\ initial_x' = Some(ToLogits(relax))
    /\ UNCHANGED <<prog, runVars, solverVars, onlineVars, launcherVars,
                   entryVars, normVars, trainerVars, topkVars, relax,
                   decoded, runs, scaling, schedule>>

\* the solution handed to task.score, category by argmax
RelaxEvaluate ==
    /\ prog = "relax" /\ initial_x # None /\ decoded = None
    /\ \E k \in ArgMaxOfSoftmax(DistributionOf(relax, initial_x[1])) :
          decoded' = Some(k)
    /\ UNCHANGED <<prog, runVars, solverVars, onlineVars, launcherVars,
                   entryVars, normVars, trainerVars, topkVars, relax,
                   initial_x, runs, scaling, schedule>>

(***************************************************************************)
(* The choice of the starting candidates: tf.math.top_k on the labels the  *)
(* entry point holds.  Labels are float32 numbers, modelled as integers    *)
(* with a mantissa of three bits, so that an operation rounds its result   *)
(* relative to its magnitude.                                              *)
(***************************************************************************)
MaxLabels == 3

\* the float32 nearest to v
RoundF(v) ==
    LET a == IF v < 0 THEN -v ELSE v
        n == CHOOSE n \in 0..30 : 2 ^ n <= a /\ a < 2 ^ (n + 1)
        q == IF n >= 2 THEN 2 ^ (n - 2) ELSE 1
    IN IF v = 0 THEN 0 ELSE Sign(v) * q * FloorDiv(2 * a + q, 2 * q)

\* y after "compute normalization statistics for the score"
NormalizedLabels(yy) ==
    LET mu == RoundF(FloorDiv(SumSeq(yy), Len(yy)))
        cc == [k \in 1..Len(yy) |-> RoundF(yy[k] - mu)]
        sd == RoundF(ISqrt(FloorDiv(
                  SumSeq([k \in 1..Len(yy) |-> cc[k] * cc[k]]), Len(yy))))
        st == IF sd = 0 THEN 1 ELSE sd
    IN [k \in 1..Len(yy) |-> RoundF(FloorDiv(cc[k] * 64, st))]

\* tf.math.top_k(values, k)[1]: the indices of the k largest values in
\* descending order, the lower index first among equal values
TopK(values, k) ==
    CHOOSE sq \in [1..k -> 1..Len(values)] :
        /\ \A a, d \in 1..k : a < d =>
              \/ values[sq[a]] > values[sq[d]]
              \/ values[sq[a]] = values[sq[d]] /\ sq[a] < sq[d]
        /\ \A a \in 1..k, j \in 1..Len(values) :
              (\A d \in 1..k : sq[d] # j) =>
                 \/ values[sq[a]] > values[j]
                 \/ values[sq[a]] = values[j] /\ sq[a] < j

\* the labels the entry point ranks: csm and online hold the locally
\* normalized y, conservative_ensemble holds task.y
TopKOn(cfg, yy) ==
    IF cfg.algo # "conservative_ensemble" /\ cfg.normalize_ys
        THEN NormalizedLabels(yy) ELSE yy

TopkInit ==
    /\ runs = Idle /\ scaling = Idle /\ schedule = Idle
    /\ prog = "topk"
    /\ \E algo \in {"csm", "online", "conservative_ensemble"},
          K \in 1..MaxLabels, nz \in BOOLEAN :
          topk_config = [algo |-> algo, K |-> K, normalize_ys |-> nz]
    /\ task_y \in [1..MaxLabels -> {1, 2, 192}]
    /\ indices = None
    /\ RunIdle /\ SolverIdle /\ OnlineIdle /\ LauncherIdle /\ EntryIdle
    /\ NormIdle /\ TrainerIdle /\ RelaxIdle

\* indices = tf.math.top_k(y[:, 0], k=K)[1]
SelectTopK ==
    /\ prog = "topk" /\ indices = None
    /\ indices' = Some(TopK(TopKOn(topk_config, task_y), topk_config.K))
    /\ UNCHANGED <<prog, runVars, solverVars, onlineVars, launcherVars,
                   entryVars, normVars, trainerVars, relaxVars, topk_config,
                   task_y, runs, scaling, schedule>>

(***************************************************************************)
(* Random choices.  Two runs are started on the same inputs.  A generator  *)
(* is a counter: np.random.seed sets it, every draw reads it and advances   *)
(* it.  A generator that the program never seeds starts from the entropy   *)
(* of the operating system, which differs from run to run: its first draw  *)
(* picks any state.  kind "dataset" is PolicyWeightsDataset (load_resources *)
(* and build), kind "csm" is the solver loop of csm.                        *)
(***************************************************************************)
MaxRngState == 3
MaxRows == 3

\* the generator after one draw
RngNext(s) == (s + 1) % (MaxRngState + 1)

\* np.random.shuffle / Dataset.shuffle: Fisher-Yates over the first k
\* places of rows, drawing from generator state s
RECURSIVE Shuffled(_, _, _)
Shuffled(rows, s, k) ==
    IF k <= 1 THEN rows
    ELSE LET j == (s % k) + 1
             swapped == [rows EXCEPT ![k] = rows[j], ![j] = rows[k]]
         IN Shuffled(swapped, RngNext(s), k - 1)

SeededInit ==
    /\ prog = "seeded"
    /\ scaling = Idle /\ schedule = Idle
    /\ \E kind \in {"dataset", "csm"}, seed \in 0..MaxRngState,
          n \in 2..MaxRows, steps \in 1..MaxSolverSteps :
          \E val_size \in 0..(n - 1) :
             /\ kind = "csm" => (seed = 0 /\ val_size = 0)
             /\ kind = "dataset" => steps = 1
             /\ runs = [kind |-> kind, seed |-> seed, N |-> n,
                        val_size |-> val_size, solver_steps |-> steps,
                        run |-> [r \in 1..2 |->
                                   [np_state |-> None, indices |-> None,
                                    x |-> None, y |-> None,
                                    train |-> None, val |-> None,
                                    order |-> None, members |-> <<>>]]]
    /\ RunIdle /\ SolverIdle /\ OnlineIdle /\ LauncherIdle /\ EntryIdle
    /\ NormIdle /\ TrainerIdle /\ RelaxIdle /\ TopkIdle

\* row k of x_file and of y_file: a design and its score (two rows may
\* share a score)
FileRow(k) == [x |-> 10 * k, y |-> 100 + (k % 2)]

\* load_resources with x and y shuffled by one np.random.shuffle each
LoadResources_ShuffleEach(r) ==
    /\ prog = "seeded" /\ runs.kind = "dataset"
    /\ runs.run[r].indices = None
    /\ LET arange == [k \in 1..runs.N |-> k]
           shuffled == Shuffled(arange, runs.seed, runs.N)
           again == Shuffled(arange,
                             (runs.seed + runs.N - 1) % (MaxRngState + 1),
                             runs.N)
       IN runs' = [runs EXCEPT
                  !.run[r].np_state =
                      Some((runs.seed + runs.N - 1) % (MaxRngState + 1)),
                  !.run[r].indices = Some(shuffled),
                  !.run[r].x =
                      Some([k \in 1..runs.N |-> FileRow(shuffled[k]).x]),
                  !.run[r].y =
                      Some([k \in 1..runs.N |-> FileRow(again[k]).y])]
    /\ UNCHANGED <<prog, runVars, solverVars, onlineVars, launcherVars,
                   entryVars, normVars, trainerVars, relaxVars, topkVars,
                   scaling, schedule>>

\* load_resources: np.random.seed(seed), then the shuffle of np.arange(N),
\* self.x = x[indices] and self.y = y[indices]
LoadResources(r) ==
    /\ prog = "seeded" /\ runs.kind = "dataset"
    /\ runs.run[r].indices = None
    /\ LET shuffled == Shuffled([k \in 1..runs.N |-> k], runs.seed, runs.N)
       IN runs' = [runs EXCEPT
                  !.run[r].np_state =
                      Some((runs.seed + runs.N - 1) % (MaxRngState + 1)),
                  !.run[r].indices = Some(shuffled),
                  !.run[r].x =
                      Some([k \in 1..runs.N |-> FileRow(shuffled[k]).x]),
                  !.run[r].y =
                      Some([k \in 1..runs.N |-> FileRow(shuffled[k]).y])]
    /\ UNCHANGED <<prog, runVars, solverVars, onlineVars, launcherVars,
                   entryVars, normVars, trainerVars, relaxVars, topkVars,
                   scaling, schedule>>

\* build: the first val_size shuffled rows validate, the others train; one
\* pass over train, which train.shuffle(...) orders from a generator that
\* no seed reaches (state tf_entropy)
Build(r, tf_entropy) ==
    /\ prog = "seeded" /\ runs.kind = "dataset"
    /\ runs.run[r].indices # None /\ runs.run[r].order = None
    /\ LET rows == runs.run[r].indices[1]
           val == SubSeq(rows, 1, runs.val_size)
           train == SubSeq(rows, runs.val_size + 1, runs.N)
           pairs == [k \in 1..runs.N |->
                        [x |-> runs.run[r].x[1][k], y |-> runs.run[r].y[1][k]]]
           valPairs == SubSeq(pairs, 1, runs.val_size)
           trainPairs == SubSeq(pairs, runs.val_size + 1, runs.N)
       IN runs' = [runs EXCEPT
                     !.run[r].order =
                         Some([val |-> {val[k] : k \in 1..Len(val)},
                               train |-> Shuffled(train, tf_entropy,
                                                  Len(train))]),
                     !.run[r].train =
                         Some(Shuffled(trainPairs, tf_entropy,
                                       Len(trainPairs))),
                     !.run[r].val =
                         Some(Shuffled(valPairs, RngNext(tf_entropy),
                                       Len(valPairs)))]
    /\ UNCHANGED <<prog, runVars, solverVars, onlineVars, launcherVars,
                   entryVars, normVars, trainerVars, relaxVars, topkVars,
                   scaling, schedule>>

\* csm, one solver step: grads[np.random.randint(len(grads))] over an
\* ensemble of two; csm takes no seed and never seeds the generator
CsmSelectMember(r, np_entropy) ==
    /\ prog = "seeded" /\ runs.kind = "csm"
    /\ Len(runs.run[r].members) < runs.solver_steps
    /\ runs.run[r].np_state # None => np_entropy = 0
    /\ LET s == IF runs.run[r].np_state = None THEN np_entropy
                ELSE runs.run[r].np_state[1]
       IN runs' = [runs EXCEPT
                     !.run[r].np_state = Some(RngNext(s)),
                     !.run[r].members = Append(@, s % 2)]
    /\ UNCHANGED <<prog, runVars, solverVars, onlineVars, launcherVars,
                   entryVars, normVars, trainerVars, relaxVars, topkVars,
                   scaling, schedule>>

(***************************************************************************)
(* The scaling of the learning rates by the number of channels.  Rates and *)
(* factors are fixed-point numbers: a factor is the square root in units   *)
(* of 1/16.  The config is a dict the caller keeps: csm writes the scaled  *)
(* rates back into it, online keeps its scaled rate in a local.            *)
(***************************************************************************)
RECURSIVE NpProd(_)
\* np.prod(shape)
NpProd(shape) == IF shape = <<>> THEN 1 ELSE Head(shape) * NpProd(Tail(shape))

\* np.sqrt(np.prod(shape))
LrFactor(shape) == ISqrt(NpProd(shape) * 256)

\* InputShape with every category counted
InputShape_AllCategories(task) == task.shape

\* input_shape: task.input_shape, its last entry less one if is_discrete
InputShape(task) ==
    IF task.is_discrete
        THEN [task.shape EXCEPT ![Len(task.shape)] = @ - 1]
        ELSE task.shape

ScaleInit ==
    /\ prog = "scale"
    /\ runs = Idle /\ schedule = Idle
    /\ \E algo \in {"csm", "online"}, is_discrete \in BOOLEAN,
          len \in 1..MaxCategories, C \in 2..MaxCategories,
          plr \in {1, 3}, slr \in {1, 2} :
          scaling = [algo |-> algo,
                task |-> [is_discrete |-> is_discrete,
                          shape |-> IF is_discrete THEN <<len, C>>
                                    ELSE <<len>>],
                config |-> [perturbation_lr |-> plr, solver_lr |-> slr],
                original |-> [perturbation_lr |-> plr, solver_lr |-> slr],
                entry |-> None, given |-> None, calls |-> 0]
    /\ RunIdle /\ SolverIdle /\ OnlineIdle /\ LauncherIdle /\ EntryIdle
    /\ NormIdle /\ TrainerIdle /\ RelaxIdle /\ TopkIdle

\* csm(config) with the scaled rates kept in locals
CsmScaleLr_Local ==
    /\ prog = "scale" /\ scaling.algo = "csm"
    /\ scaling.calls < MaxInvocations
    /\ LET f == LrFactor(scaling.task.shape)
           scaled == [perturbation_lr |->
                          scaling.config.perturbation_lr * f,
                      solver_lr |-> scaling.config.solver_lr * f]
       IN scaling' = [scaling EXCEPT !.entry = Some(scaling.config),
                                     !.given = Some(scaled),
                                     !.calls = @ + 1]
    /\ UNCHANGED <<prog, runVars, solverVars, onlineVars, launcherVars,
                   entryVars, normVars, trainerVars, relaxVars, topkVars,
                   runs, schedule>>

\* csm(config): both rates are scaled in the dict, the trainers get
\* config['perturbation_lr'], the solver steps use config['solver_lr']
CsmScaleLr ==
    /\ prog = "scale" /\ scaling.algo = "csm"
    /\ scaling.calls < MaxInvocations
    /\ LET f == LrFactor(scaling.task.shape)
           scaled == [perturbation_lr |->
                          scaling.config.perturbation_lr * f,
                      solver_lr |-> scaling.config.solver_lr * f]
       IN scaling' = [scaling EXCEPT !.entry = Some(scaling.config),
                                     !.config = scaled,
                                     !.given = Some(scaled),
                                     !.calls = @ + 1]
    /\ UNCHANGED <<prog, runVars, solverVars, onlineVars, launcherVars,
                   entryVars, normVars, trainerVars, relaxVars, topkVars,
                   runs, schedule>>

\* online(config): the scaled solver_lr is a local handed to the trainer
OnlineScaleLr ==
    /\ prog = "scale" /\ scaling.algo = "online"
    /\ scaling.calls < MaxInvocations
    /\ LET f == LrFactor(InputShape(scaling.task))
       IN scaling' = [scaling EXCEPT
                   !.entry = Some(scaling.config),
                   !.given = Some([perturbation_lr |-> 0,
                                   solver_lr |-> scaling.config.solver_lr * f]),
                   !.calls = @ + 1]
    /\ UNCHANGED <<prog, runVars, solverVars, onlineVars, launcherVars,
                   entryVars, normVars, trainerVars, relaxVars, topkVars,
                   runs, schedule>>

(***************************************************************************)
(* The evaluation schedule of online: the interval and the warmup in       *)
(* minibatches, from the fractions of an epoch the config gives, and the   *)
(* first evaluation condition of the training loop.                        *)
(***************************************************************************)
ScheduleInit ==
    /\ prog = "schedule"
    /\ runs = Idle /\ scaling = Idle
    /\ \E si \in {<<29, 100>>, <<1, 2>>, <<1, 1>>},
          sw \in {<<0, 1>>, <<29, 100>>, <<1, 2>>, <<1, 1>>},
          N \in {51, 101}, bs \in {1, 29} :
          schedule = [solver_interval |-> si, solver_warmup |-> sw,
                      N |-> N, val_size |-> 1, batch_size |-> bs,
                      trainer |-> None, step |-> 0, condition |-> None]
    /\ RunIdle /\ SolverIdle /\ OnlineIdle /\ LauncherIdle /\ EntryIdle
    /\ NormIdle /\ TrainerIdle /\ RelaxIdle /\ TopkIdle

\* solver_interval and solver_warmup, as handed to the trainer
ScheduleCompute ==
    /\ prog = "schedule" /\ schedule.trainer = None
    /\ schedule' = [schedule EXCEPT !.trainer = Some(
           [solver_interval |->
                MinibatchesOf(schedule.solver_interval, schedule),
            solver_warmup |->
                MinibatchesOf(schedule.solver_warmup, schedule)])]
    /\ UNCHANGED <<prog, runVars, solverVars, onlineVars, launcherVars,
                   entryVars, normVars, trainerVars, relaxVars, topkVars,
                   runs, scaling>>

\* the evaluation condition after the first train_step:
\* tf.math.mod(trainer.step, interval) raises when the interval is 0
ScheduleFirstCondition ==
    /\ prog = "schedule" /\ schedule.trainer # None /\ schedule.step = 0
    /\ LET t == schedule.trainer[1]
       IN schedule' = [schedule EXCEPT
              !.step = 1,
              !.condition = IF t.solver_interval = 0 THEN Some("raised")
                            ELSE IF 1 % t.solver_interval = 0
                                        /\ 1 >= t.solver_warmup
                                THEN Some("due") ELSE Some("not_due")]
    /\ UNCHANGED <<prog, runVars, solverVars, onlineVars, launcherVars,
                   entryVars, normVars, trainerVars, relaxVars, topkVars,
                   runs, scaling>>

Init == SearchInit \/ OnlineInit \/ LauncherInit \/ EntryInit
           \/ NormInit \/ TrainerInit \/ RelaxInit
           \/ TopkInit \/ SeededInit \/ ScaleInit \/ ScheduleInit

Next ==
    \/ CsmStart
    \/ \E r \in 1..Len(forward_models) : CsmStep(r)
    \/ CeStart
    \/ CeStep
    \/ SaveBest
    \/ ReinforceInitSampler
    \/ \E en \in TrainNoise, es \in SolutionNoise : ReinforceIter(en, es)
    \/ ReinforceEnd
    \/ \E nd \in DoneChoices : OnlineTrainStep(nd)
    \/ OnlineValidateStep
    \/ OnlineCheckDone
    \/ OnlineSave
    \/ LaunchRayInit
    \/ LaunchLookup
    \/ LaunchTuneRun
    \/ EntryRestore
    \/ EntryLaunch
    \/ EntrySave
    \/ EntryInvokeAgain
    \/ NormCentre
    \/ NormStd
    \/ NormDivide
    \/ NormDisabled
    \/ \E conservative \in ConservativeBatches, mg \in ModelGrads :
          TrainStep(conservative, mg)
    \/ \E conservative \in ConservativeBatches : ValidateStep(conservative)
    \/ \E batches \in 2..MaxValidations : Validate(batches)
    \/ RelaxToLogits
    \/ RelaxEvaluate
    \/ SelectTopK
    \/ \E r \in 1..2 : LoadResources(r)
    \/ \E r \in 1..2, tf_entropy \in 0..MaxRngState : Build(r, tf_entropy)
    \/ \E r \in 1..2, np_entropy \in 0..MaxRngState :
          CsmSelectMember(r, np_entropy)
    \/ CsmScaleLr
    \/ OnlineScaleLr
    \/ ScheduleCompute
    \/ ScheduleFirstCondition

Spec == Init /\ [][Next]_vars

(***************************************************************************)
(* The claims.                                                             *)
(***************************************************************************)
\* every oracle score of the run so far
AllScores == UNION {{score_log[n].score[k] : k \in 1..Len(score_log[n].score)}
                       : n \in 1..Len(score_log)}

\* C1: in csm and conservative_ensemble the best score persisted at the end
\* of the run is the maximum oracle score over every oracle evaluation of
\* the run, the evaluation of the initial candidates at step 0 included.
C1_SavedBestIsMaxOfAllEvaluations ==
    (prog \in {"csm", "conservative_ensemble"} /\ pc = "done") =>
        /\ saved[1].score # None
        /\ saved[1].score[1] = MaxOfSet(AllScores)

\* C2: in csm, conservative_ensemble and reinforce without
\* optimize_ground_truth the candidate designs (the sampler parameter) are
\* the same under any two oracles, at every step.
C2_OracleNeverInfluencesSearch ==
    (prog \in SearchProgs /\ ~config.optimize_ground_truth) => x = x_alt

\* a reinforce run on the surrogate that has updated its sampler twice
\* while the two oracles scored its last solution differently
C2_Witness ==
    /\ prog = "reinforce" /\ ~config.optimize_ground_truth
    /\ i = 2 /\ x # NaN
    /\ score_log[2].score #
           ReinforceScoreEntry(1, oracle_alt, score_log[2].solution).score

\* C3: in online no epoch is started once every entry of the done mask is
\* true: the remaining configured epochs are not run.
C3_StopsOnceAllDone ==
    (prog = "online" /\ pc = "train" /\ b = 0 /\ e > 0) => ~AllDone(trainer)

\* the loop has ended with all trajectories done and epochs left to run
C3_Witness ==
    /\ prog = "online" /\ pc = "done" /\ AllDone(trainer)
    /\ e + 1 < config.epochs

\* C4: in online an evaluation is recorded after a minibatch exactly when
\* the trainer's minibatch counter is a multiple of the interval and at
\* least the warmup; consecutive evaluations are interval minibatches apart.
C4_EvaluationSchedule ==
    prog = "online" =>
        /\ \A n \in 1..Len(pred_log) :
              /\ pred_log[n].at % trainer.solver_interval = 0
              /\ pred_log[n].at >= trainer.solver_warmup
        /\ \A s \in 1..trainer.step :
              (/\ trainer.solver_interval > 0
               /\ s % trainer.solver_interval = 0
               /\ s >= trainer.solver_warmup)
                  => \E n \in 1..Len(pred_log) : pred_log[n].at = s
        /\ \A n \in 1..(Len(pred_log) - 1) :
              pred_log[n + 1].at - pred_log[n].at = trainer.solver_interval

\* the warmup exceeds the interval: the first evaluation waited for it and
\* the second followed one interval later
C4_Witness ==
    /\ prog = "online" /\ Len(pred_log) >= 2
    /\ trainer.solver_warmup > trainer.solver_interval
    /\ pred_log[1].at = trainer.solver_warmup
    /\ pred_log[2].at = trainer.solver_warmup + trainer.solver_interval

\* the evaluations at which task.score was called
OracleEvaluations == {score_log[n].step : n \in 1..Len(score_log)}

\* C5 as stated: the oracle is called at evaluation k exactly when k is in
\* evaluate_steps or evaluate_steps is empty; the prediction is recorded at
\* every evaluation.
C5_OracleExactlyAtEvaluateSteps ==
    prog = "online" =>
        /\ \A k \in 1..evaluations :
              k \in OracleEvaluations <=>
                  (k \in config.evaluate_steps \/ config.evaluate_steps = {})
        /\ \A k \in 1..evaluations :
              \E n \in 1..Len(pred_log) : pred_log[n].step = k

\* C5 amended: the oracle is called at evaluation k exactly when k is in
\* evaluate_steps, or evaluate_steps is empty, or k is the first evaluation
\* (no score has been obtained yet); the prediction is recorded at every
\* evaluation.
C5_OracleAtEvaluateStepsOrFirst ==
    prog = "online" =>
        /\ \A k \in 1..evaluations :
              k \in OracleEvaluations <=>
                  \/ k \in config.evaluate_steps
                  \/ config.evaluate_steps = {}
                  \/ k = 1
        /\ \A k \in 1..evaluations :
              \E n \in 1..Len(pred_log) : pred_log[n].step = k

\* three evaluations with evaluate_steps = [2]: the oracle ran at 1 and 2
C5_Witness ==
    /\ prog = "online" /\ evaluations = 3
    /\ config.evaluate_steps = {2}
    /\ OracleEvaluations = {1, 2}

\* position of a call in the log of this invocation, 0 if it was not made
CallIndex(op, m) ==
    IF \E n \in 1..Len(ops_log) : ops_log[n] = <<op, m>>
        THEN CHOOSE n \in 1..Len(ops_log) : ops_log[n] = <<op, m>>
        ELSE 0

\* C6: every entry point that creates a checkpoint manager restores (or
\* initializes) the trainer before its training phase and saves the state
\* after it: conservative_ensemble, both trainers of
\* conservative_ensemble_predictions, the ensemble of reinforce.
C6_RestoreBeforeAndSaveAfterTraining ==
    (prog = "entry" /\ epos > Len(Script(entry_point.name))) =>
        \A m \in ManagersOf(entry_point.name) :
            /\ 0 < CallIndex("restore_or_initialize", m)
            /\ CallIndex("restore_or_initialize", m) < CallIndex("launch", m)
            /\ CallIndex("launch", m) < CallIndex("save", m)

\* C7: in gfp, aav and gb1 a difficulty that is no key of the command's
\* table raises NotImplementedError listing the supported levels and
\* tune.run is never called; for a supported key tune.run gets its task.
C7_UnknownDifficultyFailsFast ==
    (prog = "launcher" /\ launch.command \in DifficultyCommands) =>
        LET keys == DifficultyKeys(launch.command)
            supported == \E n \in 1..Len(keys) : keys[n] = launch.difficulty
        IN /\ ~supported =>
                 /\ tune = None
                 /\ lpc \in {"start", "lookup", "raised"}
                 /\ lpc = "raised" =>
                       /\ raised # None
                       /\ raised[1].type = "NotImplementedError"
                       /\ raised[1].levels = keys
           /\ supported =>
                 /\ raised = None
                 /\ lpc # "raised"
                 /\ tune # None =>
                       \E n \in 1..Len(keys) :
                          /\ keys[n] = launch.difficulty
                          /\ tune[1].task =
                                 Difficulty2Task(launch.command)[n][2]

\* aav was given "none", a key of gfp's table only, and has raised
C7_Witness ==
    /\ prog = "launcher" /\ launch.command = "aav"
    /\ launch.difficulty = "none" /\ lpc = "raised" /\ ray # None

\* C8: in csm and online the standard deviation used as the divisor when
\* normalizing x and y is never zero: a computed standard deviation of
\* exactly 0 is replaced by 1, and with normalization disabled the
\* statistics are mean 0 and std 1.
C8_DivisorNeverZero ==
    (prog = "normalize" /\ st_stat # None) =>
        /\ st_stat[1] # 0
        /\ np_std = Some(0) => st_stat = Some(One)
        /\ ~NormEnabled(norm_config) =>
               mu_stat = Some(0) /\ st_stat = Some(One)

\* one step keeps the statistics and logs only denormalized values
StatsFixedAndAppliedStep ==
    prog \in {"csm", "online"} =>
        /\ stats' = stats
        /\ \A n \in 1..Len(score_log') :
              \A k \in 1..Len(score_log'[n].arg) :
                 score_log'[n].arg[k] =
                     score_log'[n].solution[k] * stats.st_x + stats.mu_x
        /\ \A n \in 1..Len(pred_log') :
              \A m \in 1..Len(pred_log'[n].logged) :
                 \A k \in 1..Len(pred_log'[n].logged[m]) :
                    pred_log'[n].logged[m][k] =
                        pred_log'[n].mean[m][k] * stats.st_y + stats.mu_y

\* C9: in csm and online the normalization statistics never change, every
\* design handed to task.score is solution * st_x + mu_x and every logged
\* surrogate prediction is mean * st_y + mu_y.
C9_StatsFixedAndApplied == [][StatsFixedAndAppliedStep]_vars

\* online has called the oracle twice with statistics that are not (0, 1)
C9_Witness ==
    /\ prog = "online" /\ Len(score_log) >= 2 /\ stats.st_x = 2
    /\ stats.mu_y = 1

\* C10 as stated: over any stream of train_steps in which the conservative
\* gap stays above target_threshold alpha never decreases from one step to
\* the next, and over any stream in which it stays below, alpha never
\* increases.
C10_AlphaMonotoneOverAnyStream ==
    prog = "trainer" =>
        \A n \in 1..Len(gap_log) :
            /\ gap_log[n].min > target_threshold =>
                   alpha_log[n + 1] >= alpha_log[n]
            /\ gap_log[n].max < target_threshold =>
                   alpha_log[n + 1] <= alpha_log[n]

\* C10, amended: over a stream of train_steps that starts at the
\* construction of the trainer (fresh optimizer slots), alpha never
\* decreases while the gap has stayed above target_threshold and never
\* increases while it has stayed below.
C10_AlphaMonotoneFromConstruction ==
    prog = "trainer" =>
        /\ (\A n \in 1..Len(gap_log) : gap_log[n].min > target_threshold)
               => \A n \in 1..Len(gap_log) :
                      alpha_log[n + 1] >= alpha_log[n]
        /\ (\A n \in 1..Len(gap_log) : gap_log[n].max < target_threshold)
               => \A n \in 1..Len(gap_log) :
                      alpha_log[n + 1] <= alpha_log[n]

\* two steps above the threshold from construction, and alpha has grown
C10_Witness ==
    /\ prog = "trainer" /\ Len(gap_log) >= 2
    /\ \A n \in 1..Len(gap_log) : gap_log[n].min > target_threshold
    /\ alpha_log[Len(alpha_log)] > alpha_log[1]

\* the variables of the trainer that a checkpoint holds
TrainerStateUnchanged ==
    UNCHANGED <<fm_params, optim, log_alpha, alpha_optim>>

ValidationLeavesStateStep ==
    (prog = "trainer" /\ validations' # validations) => TrainerStateUnchanged

\* C11: Conservative.validate_step and Conservative.validate leave the
\* forward model's parameters, log_alpha and both optimizers' state
\* unchanged, over any number of validation calls.
C11_ValidationLeavesState == [][ValidationLeavesStateStep]_vars

\* two validation results were returned after a train_step that had moved
\* the model and alpha
C11_Witness ==
    /\ prog = "trainer" /\ validations = 2 /\ Len(gap_log) >= 1
    /\ fm_params # 0 /\ alpha_log[Len(alpha_log)] # alpha_log[1]

TrainStepFramesStep ==
    (prog = "trainer" /\ gap_log' # gap_log) =>
        /\ after_model_step'[1].log_alpha = log_alpha
        /\ after_model_step'[1].alpha_optim = alpha_optim
        /\ fm_params' = after_model_step'[1].fm_params
        /\ optim' = after_model_step'[1].optim

\* C12: in Conservative.train_step the step on the total loss changes only
\* the forward model's variables (and their optimizer) and leaves log_alpha
\* unchanged; the step on the alpha loss changes only log_alpha (and its
\* optimizer) and leaves the forward model's variables unchanged.
C12_TrainStepFrames == [][TrainStepFramesStep]_vars

\* a train_step whose first update moved the model and whose second update
\* moved log_alpha
C12_Witness ==
    /\ prog = "trainer" /\ after_model_step # None
    /\ Len(gap_log) = 1
    /\ after_model_step[1].fm_params # 0
    /\ log_alpha # after_model_step[1].log_alpha

\* C13 as stated: in online with discrete_clip strictly between 0 and 1 a
\* one-hot position of category c (the reference category 0 included),
\* converted to logits and mapped back by evaluate_solution, has argmax c.
C13_RoundTripForEveryClip ==
    (/\ prog = "relax" /\ relax.algo = "online" /\ decoded # None
     /\ 0 < relax.clip /\ relax.clip < RelaxOne)
        => decoded = Some(relax.c)

\* C13, amended: the same, for a discrete_clip strictly between 0 and 1
\* that float32 does not absorb: the logarithm of the smoothed hot entry is
\* strictly greater than that of the other entries.
C13_RoundTripForDistinctLogits ==
    (/\ prog = "relax" /\ relax.algo = "online" /\ decoded # None
     /\ 0 < relax.clip /\ relax.clip < RelaxOne
     /\ ExtLog(Smoothed(relax, RelaxOne)).v > ExtLog(Smoothed(relax, 0)).v)
        => decoded = Some(relax.c)

\* online with clip 0.6 has mapped the last of three categories back
C13_Witness ==
    /\ prog = "relax" /\ relax.algo = "online" /\ relax.clip = 38
    /\ relax.C = 3 /\ relax.c = 2 /\ decoded = Some(2)
    /\ initial_x[1][2].v > 0 /\ initial_x[1][1].v = 0

\* C14: on a discrete task every logit of the initial candidates is
\* finite, for the configured smoothing constant and for its default.
C14_InitialLogitsFinite ==
    (prog = "relax" /\ initial_x # None) =>
        \A k \in 1..Len(initial_x[1]) : initial_x[1][k].kind = "finite"

\* C15: the starting candidates of csm, conservative_ensemble and online
\* are K distinct dataset designs, no unselected design has a strictly
\* higher observed label than a selected one, and ranking the normalized
\* labels selects the same designs as ranking the raw labels.
C15_TopKByObservedLabel ==
    (prog = "topk" /\ indices # None) =>
        LET sel == indices[1]
            chosen == {sel[k] : k \in 1..Len(sel)}
        IN /\ Len(sel) = topk_config.K
           /\ Cardinality(chosen) = topk_config.K
           /\ \A a \in chosen, j \in (1..Len(task_y)) \ chosen :
                 task_y[j] <= task_y[a]
           /\ sel = TopK(task_y, topk_config.K)

\* C16: in a reinforce run with at least one iteration, prediction, loss and
\* score are logged in every iteration, render_video is not called before
\* the last iteration, and the last iteration calls it exactly once, after
\* its parameter update and scoring, with the design of the evaluated batch
\* whose score is the maximum.
C16_RenderOnceInLastIteration ==
    (prog = "reinforce" /\ config.iterations >= 1) =>
        /\ Len(score_log) = i /\ Len(pred_log) = i
        /\ \A n \in 1..i : score_log[n].step = n - 1 /\ pred_log[n].step = n - 1
        /\ i < config.iterations => rendered = <<>>
        /\ i = config.iterations =>
              /\ Len(rendered) = 1
              /\ rendered[1].iteration = config.iterations - 1
              /\ LET last == score_log[i]
                 IN \E k \in 1..Len(last.solution) :
                       /\ rendered[1].design = last.solution[k]
                       /\ x = NaN => rendered[1].design = NaN
                       /\ x # NaN => \E d \in -1..1 :
                                        rendered[1].design = Num(x[1] + d)
                       /\ \A j \in 1..Len(last.solution) :
                             (last.score[j] # NaN /\ last.score[k] # NaN)
                                 => last.score[j][1] <= last.score[k][1]

\* a run of two iterations has rendered the better of two designs that
\* score differently
C16_Witness ==
    /\ prog = "reinforce" /\ config.iterations = 2 /\ i = 2
    /\ Len(rendered) = 1 /\ rendered[1].design # NaN
    /\ Len(score_log[2].score) = 2
    /\ score_log[2].score[1] # score_log[2].score[2]
    /\ rendered[1].design = score_log[2].solution[2]

\* C17: every run that has left its loop writes its artifacts with real
\* values: online never fails in its save and persists the collected scores
\* and predictions, and the score.npy of csm and conservative_ensemble
\* holds an oracle score of the run together with the design that
\* produced it.
C17_ArtifactsHoldRealValues ==
    /\ prog = "online" => pc # "crashed"
    /\ (prog = "online" /\ pc = "done") => saved # None
    /\ (prog \in {"csm", "conservative_ensemble"} /\ pc = "done") =>
          /\ saved[1].score # None /\ saved[1].solution # None
          /\ \E n \in 1..Len(score_log) :
                \E k \in 1..Len(score_log[n].score) :
                   /\ saved[1].score[1] = score_log[n].score[k]
                   /\ saved[1].solution[1] = score_log[n].solution[k]

\* C18: two runs given the same seed and the same inputs make the same
\* random choices: PolicyWeightsDataset produces the same permutation, the
\* same split and the same batch order, and csm selects the same sequence
\* of ensemble members over its solver steps.
C18_SameSeedSameChoices ==
    prog = "seeded" =>
        LET fst == runs.run[1]
            snd == runs.run[2]
        IN /\ (fst.indices # None /\ snd.indices # None)
                 => fst.indices = snd.indices
           /\ (fst.order # None /\ snd.order # None) => fst.order = snd.order
           /\ \A k \in 1..Len(fst.members) :
                 k <= Len(snd.members) => fst.members[k] = snd.members[k]

\* C19: the learning rate a run hands to its search is the rate of the
\* config it was called with times sqrt(product of the per-example
\* dimensions), applied once: csm scales perturbation_lr and solver_lr over
\* x.shape[1:], online scales solver_lr over the input shape, whose last
\* dimension counts C - 1 categories on a discrete task.
C19_LrScaledOncePerRun ==
    (prog = "scale" /\ scaling.calls >= 1) =>
        LET shape == scaling.task.shape
            last == shape[Len(shape)]
            full == IF Len(shape) = 2 THEN shape[1] * last ELSE last
            reduced == IF Len(shape) = 2 THEN shape[1] * (last - 1) ELSE last
            before == scaling.entry[1]
            handed == scaling.given[1]
        IN IF scaling.algo = "csm"
              THEN /\ handed.solver_lr = before.solver_lr * ISqrt(full * 256)
                   /\ handed.perturbation_lr = before.perturbation_lr
                                                  * ISqrt(full * 256)
              ELSE handed.solver_lr =
                       before.solver_lr
                           * ISqrt((IF scaling.task.is_discrete THEN reduced
                                    ELSE full) * 256)

\* online on a discrete task of two positions and three categories has
\* scaled its rate by sqrt(2 * 2)
C19_Witness ==
    /\ prog = "scale" /\ scaling.algo = "online" /\ scaling.task.is_discrete
    /\ scaling.task.shape = <<2, 3>> /\ scaling.calls = 1
    /\ scaling.given[1].solver_lr = scaling.config.solver_lr * 32

\* what one step of online may change, by its position in the loop
OnlineEvaluationPlacementStep ==
    prog = "online" =>
        LET perEpoch == NumBatches(config.N - config.val_size,
                                   config.batch_size)
        IN /\ evaluations' # evaluations =>
                 /\ pc = "train" /\ e' = e
                 /\ evaluations' = evaluations + 1
                 /\ trainer'.step = trainer.step + 1
                 /\ e * perEpoch < trainer'.step
                 /\ trainer'.step <= (e + 1) * perEpoch
           /\ pc \in {"validate", "check", "save"} =>
                 /\ evaluations' = evaluations /\ trainer' = trainer
                 /\ scores' = scores /\ predictions' = predictions
                 /\ score_log' = score_log
           /\ (pc # "validate" /\ pc' = "validate") =>
                 /\ pc = "train" /\ e' = e
                 /\ trainer'.step = (e + 1) * perEpoch

\* C20: in online a search evaluation happens only in the training
\* minibatch loop, together with a train_step of the same epoch; the
\* validation pass and the step between two epochs evaluate nothing, and
\* the validation pass of an epoch starts only after every training
\* minibatch of that epoch.
C20_EvaluationsOnlyAfterTrainSteps == [][OnlineEvaluationPlacementStep]_vars

\* the validation pass of the second epoch, after two evaluations
C20_Witness ==
    /\ prog = "online" /\ pc = "validate" /\ e = 1
    /\ evaluations >= 2 /\ Len(scores) = evaluations

\* what one solver step of csm does to the batch and to the logs
CsmOneMemberStep ==
    (prog = "csm" /\ pc = "loop" /\ i' = i + 1) =>
        /\ \E r \in 1..Len(forward_models) :
              \A k \in 1..Len(x) :
                 x'[k] = x[k] + config.solver_lr
                                   * Grad(forward_models[r], x[k])
        /\ score_log'[Len(score_log')].solution = x'
        /\ LET logged == pred_log'[Len(pred_log')]
           IN /\ logged.step = i
              /\ Len(logged.mean) = Len(forward_models)
              /\ \A n \in 1..Len(forward_models) :
                    \A k \in 1..Len(x) :
                       logged.mean[n][k] = Pred(forward_models[n], x'[k])

\* C21: at each csm solver step the update of the whole batch is the
\* gradient, taken at the batch before the update, of one ensemble member,
\* the same member for every design, and every member then predicts the
\* same updated batch.
C21_OneMemberUpdatesWholeBatch == [][CsmOneMemberStep]_vars

\* two different surrogates have scored the same updated batch of two
\* designs differently
C21_Witness ==
    /\ prog = "csm" /\ i >= 2 /\ Len(x) = 2
    /\ Len(forward_models) = 2 /\ forward_models[1] # forward_models[2]
    /\ pred_log[2].mean[1] # pred_log[2].mean[2]
    /\ x[1] # x[2]

\* C22: every invocation of conservative_ensemble trains config['epochs']
\* epochs on top of the restored state and writes the checkpoint once, after
\* its training phase: until then the directory holds the checkpoint of the
\* invocation before, and after k invocations on one logging directory it
\* holds the one checkpoint of a model trained for k * epochs epochs.
C22_CheckpointAccumulatesEpochs ==
    (prog = "entry" /\ entry_point.name = "conservative_ensemble") =>
        LET saves == {n \in 1..Len(ops_log) : ops_log[n][1] = "save"}
        IN /\ Cardinality(saves) <= 1
           /\ saves # {} =>
                 /\ saves = {Len(ops_log)}
                 /\ CallIndex("launch", "ckpt") = Len(ops_log) - 1
                 /\ ckpt["ckpt"] = Some(invocation * entry_point.epochs)
           /\ saves = {} =>
                 ckpt["ckpt"] = IF invocation = 1 THEN None
                                ELSE Some((invocation - 1)
                                              * entry_point.epochs)

\* the second invocation has saved a model of twice two epochs
C22_Witness ==
    /\ prog = "entry" /\ entry_point.name = "conservative_ensemble"
    /\ entry_point.epochs = 2 /\ invocation = 2
    /\ epos > Len(Script(entry_point.name))
    /\ ckpt["ckpt"] = Some(4)

\* where a step of online's loop may go, by the done mask
OnlineDoneExaminedStep ==
    prog = "online" =>
        LET perEpoch == NumBatches(config.N - config.val_size,
                                   config.batch_size)
        IN /\ (pc = "train" /\ pc' # "crashed") =>
                 /\ pc' \in {"train", "validate"}
                 /\ pc' = "validate" <=> trainer'.step = (e + 1) * perEpoch
                 /\ EvalDue(trainer'.step, trainer.solver_interval,
                            trainer.solver_warmup)
                       => evaluations' = evaluations + 1
           /\ pc = "validate" => pc' \in {"validate", "check"}
           /\ (pc # "save" /\ pc' = "save") =>
                 /\ pc = "check"
                 /\ trainer.step >= perEpoch
                 /\ trainer.step = (IF AllDone(trainer) THEN e + 1 ELSE e')
                                       * perEpoch
           /\ (pc = "check" /\ AllDone(trainer)) => pc' = "save"

\* C23: online examines the done mask once per epoch, after the validation
\* pass: a training minibatch is followed by the next one or by the
\* validation pass also when every trajectory is done, the evaluations
\* that fall due still happen, and the loop is left only after whole epochs,
\* at least one when epochs >= 1.
C23_DoneExaminedOncePerEpoch == [][OnlineDoneExaminedStep]_vars

\* every trajectory was done in the middle of an epoch (the surrogate's
\* gradient is 1 everywhere, yet the solution stood still between two
\* evaluations of the epoch), and the validation pass is still run
C23_Witness ==
    /\ prog = "online" /\ pc = "validate" /\ AllDone(trainer)
    /\ forward_models[1] = "up"
    /\ Len(pred_log) >= 2
    /\ pred_log[Len(pred_log)].at > pred_log[Len(pred_log) - 1].at
    /\ pred_log[Len(pred_log)].mean = pred_log[Len(pred_log) - 1].mean
    /\ (pred_log[Len(pred_log)].at - 1) \div
           NumBatches(config.N - config.val_size, config.batch_size) = e
    /\ (pred_log[Len(pred_log) - 1].at - 1) \div
           NumBatches(config.N - config.val_size, config.batch_size) = e

\* what one train_step computes its two updates from
TrainStepFromOneTapeStep ==
    (prog = "trainer" /\ gap_log' # gap_log) =>
        LET measured == gap_log'[Len(gap_log')]
            conservative == [k \in 1..BatchSize |-> measured.min]
        IN /\ measured.min = measured.max
           /\ \E mg \in ModelGrads :
                 /\ optim' = OptimSlots(optim, TotalLossGrad(log_alpha, mg))
                 /\ fm_params' = OptimApply(optim, fm_params,
                                            TotalLossGrad(log_alpha, mg))
           /\ alpha_optim' =
                 OptimSlots(alpha_optim, AlphaLossGrad(log_alpha, conservative))
           /\ log_alpha' =
                 OptimApply(alpha_optim, log_alpha,
                            AlphaLossGrad(log_alpha, conservative))
           /\ after_model_step'[1] =
                 [TrainerState EXCEPT !.fm_params = fm_params',
                                      !.optim = optim']

\* C24: in Conservative.train_step both updates come from the forward pass
\* recorded before any update: the model gradient is taken at the alpha of
\* before the step, the log_alpha gradient at the conservative gap the
\* step measured and returns, and the model update is applied first, the
\* alpha update second.
C24_BothUpdatesFromOneTape == [][TrainStepFromOneTapeStep]_vars

\* a second train_step, after the first one had changed alpha
C24_Witness ==
    /\ prog = "trainer" /\ Len(gap_log) = 2 /\ optim.t = 2
    /\ alpha_log[2] # alpha_log[1]
    /\ after_model_step[1].log_alpha # log_alpha
    /\ after_model_step[1].fm_params = fm_params

\* C25: in online, after any number of training minibatches, scores and
\* predictions have one entry per evaluation, every entry of scores is an
\* oracle score and never None: the first evaluation calls the oracle, and
\* every evaluation appends the score of the latest evaluation that did.
C25_OneScorePerEvaluation ==
    prog = "online" =>
        /\ Len(scores) = evaluations /\ Len(predictions) = evaluations
        /\ evaluations >= 1 => 1 \in OracleEvaluations
        /\ \A n \in 1..Len(scores) :
              /\ scores[n] # None /\ predictions[n] # None
              /\ \E m \in 1..Len(score_log) :
                    /\ score_log[m].step <= n
                    /\ \A later \in 1..Len(score_log) :
                          score_log[later].step <= n
                              => score_log[later].step <= score_log[m].step
                    /\ scores[n] = Some(score_log[m].score)

\* the second of three evaluations did not call the oracle and appended
\* the score of the first, although the solution had moved
C25_Witness ==
    /\ prog = "online" /\ evaluations = 3
    /\ config.evaluate_steps = {1, 3}
    /\ OracleEvaluations = {1, 3}
    /\ scores[2] = scores[1]
    /\ pred_log[2].mean # pred_log[1].mean

\* C26: in online the evaluation interval and the warmup in minibatches
\* are floor(solver_interval * (N - val_size) / batch_size) and
\* floor(solver_warmup * (N - val_size) / batch_size); the interval is at
\* least 1 exactly when solver_interval * (N - val_size) >= batch_size, and
\* otherwise it is 0 and the evaluation condition takes the step counter
\* modulo 0.
C26_IntervalIsExactFloor ==
    (prog = "schedule" /\ schedule.trainer # None) =>
        LET t == schedule.trainer[1]
            rows == schedule.N - schedule.val_size
        IN /\ t.solver_interval =
                  ExactFloorOf(schedule.solver_interval, schedule)
           /\ t.solver_warmup =
                  ExactFloorOf(schedule.solver_warmup, schedule)
           /\ t.solver_interval >= 1 <=>
                  schedule.solver_interval[1] * rows
                      >= schedule.solver_interval[2] * schedule.batch_size
           /\ t.solver_interval < 1 => t.solver_interval = 0
           /\ schedule.condition # None =>
                  (schedule.condition = Some("raised")
                       <=> t.solver_interval = 0)

\* what the code does keep: both counts are never negative and never above
\* the exact floor, the dyadic fractions give the exact floor, and the run
\* raises at the first evaluation condition exactly when the interval is 0
C26_IntervalAtMostExactFloor ==
    (prog = "schedule" /\ schedule.trainer # None) =>
        LET t == schedule.trainer[1]
            exact_i == ExactFloorOf(schedule.solver_interval, schedule)
            exact_w == ExactFloorOf(schedule.solver_warmup, schedule)
        IN /\ t.solver_interval \in {exact_i - 1, exact_i}
           /\ t.solver_warmup \in {exact_w - 1, exact_w}
           /\ t.solver_interval >= 0 /\ t.solver_warmup >= 0
           /\ schedule.solver_interval \in {<<1, 2>>, <<1, 1>>}
                  => t.solver_interval = exact_i
           /\ schedule.condition # None =>
                  (schedule.condition = Some("raised")
                       <=> t.solver_interval = 0)

\* solver_interval = 0.29 on 100 training rows in batches of 29: the exact
\* quotient is 1, the trainer is given the interval 0 and the first
\* evaluation condition raises
C26_ZeroIntervalReached ==
    /\ prog = "schedule"
    /\ schedule.solver_interval = <<29, 100>>
    /\ schedule.N - schedule.val_size = 100 /\ schedule.batch_size = 29
    /\ schedule.trainer # None /\ schedule.trainer[1].solver_interval = 0
    /\ schedule.condition = Some("raised")

\* the rates of a config, each multiplied by m
RatesTimes(rates, m) ==
    [perturbation_lr |-> rates.perturbation_lr * m,
     solver_lr |-> rates.solver_lr * m]

\* C27: csm writes the scaled perturbation_lr and solver_lr back into the
\* caller's mapping, so the k-th call with the same mapping starts from the
\* rates of the call before and the mapping holds the caller's rates times
\* sqrt(D) to the k (times D after two calls); online hands on a local and
\* leaves the caller's mapping as it was.
C27_CsmRescalesCallersConfig ==
    prog = "scale" =>
        LET k == scaling.calls
            D == NpProd(scaling.task.shape)
            f == LrFactor(scaling.task.shape)
        IN /\ f * f <= 256 * D /\ 256 * D < (f + 1) * (f + 1)
           /\ scaling.algo = "csm" =>
                 /\ scaling.config = RatesTimes(scaling.original, f ^ k)
                 /\ k >= 1 =>
                       /\ scaling.entry =
                              Some(RatesTimes(scaling.original, f ^ (k - 1)))
                       /\ scaling.given = Some(scaling.config)
                 /\ (k = 2 /\ f * f = 256 * D) =>
                       scaling.config =
                           RatesTimes(scaling.original, 256 * D)
           /\ scaling.algo = "online" =>
                 /\ scaling.config = scaling.original
                 /\ k >= 1 =>
                       /\ scaling.entry = Some(scaling.original)
                       /\ scaling.given[1].solver_lr =
                              scaling.original.solver_lr
                                  * LrFactor(InputShape(scaling.task))

\* csm was called twice with one mapping on a task of D = 4 channels: the
\* second call started from the doubled rates and left them times four
C27_Witness ==
    /\ prog = "scale" /\ scaling.algo = "csm" /\ scaling.calls = 2
    /\ NpProd(scaling.task.shape) = 4
    /\ scaling.entry = Some(RatesTimes(scaling.original, 32))
    /\ scaling.config = RatesTimes(scaling.original, 4 * 256)
    /\ scaling.config # scaling.original

\* A run is one sequential program over finite datasets whose oracle calls
\* return: a step that can be taken is taken.
LoopInit == SearchInit \/ OnlineInit

LoopNext ==
    \/ CsmStart
    \/ \E r \in 1..Len(forward_models) : CsmStep(r)
    \/ CeStart
    \/ CeStep
    \/ SaveBest
    \/ ReinforceInitSampler
    \/ \E en \in TrainNoise, es \in SolutionNoise : ReinforceIter(en, es)
    \/ ReinforceEnd
    \/ \E nd \in DoneChoices : OnlineTrainStep(nd)
    \/ OnlineValidateStep
    \/ OnlineCheckDone
    \/ OnlineSave

FairSpec == LoopInit /\ [][LoopNext]_vars /\ WF_vars(LoopNext)

\* the loops keep their budget: the config is not written, and a loop
\* counter moves by at most one per step and never back
LoopKeepsBudgetStep ==
    prog \in SearchProgs \cup {"online"} =>
        /\ config' = config
        /\ prog \in SearchProgs => i' \in {i, i + 1}
        /\ prog = "online" => e' \in {e, e + 1}

\* the iterations a loop has run are within its budget, and a run that
\* ended normally ran all of them: csm and conservative_ensemble
\* solver_steps (the logs hold the starting point as step 0 and one entry
\* per iteration), reinforce iterations, online at most epochs
LoopWithinBudget ==
    /\ prog \in {"csm", "conservative_ensemble"} =>
          /\ pc = "loop" => i \in 1..(config.solver_steps + 1)
          /\ pc \in {"loop", "done"} =>
                /\ Len(score_log) = i /\ Len(pred_log) = i
                /\ \A n \in 1..i : score_log[n].step = n - 1
          /\ pc = "done" => i = config.solver_steps + 1
    /\ prog = "reinforce" =>
          /\ pc = "loop" => i \in 0..config.iterations
          /\ pc = "done" => i = config.iterations
    /\ prog = "online" =>
          /\ e \in 0..config.epochs
          /\ pc \in {"train", "validate", "check"} => e < config.epochs
          /\ trainer.step <= config.epochs
                 * NumBatches(config.N - config.val_size, config.batch_size)

\* C28: every search loop terminates within its configured budget: online
\* runs at most config['epochs'] epochs, csm and conservative_ensemble run
\* exactly solver_steps solver iterations, reinforce runs exactly
\* config['iterations'] iterations, and no loop extends its own budget.
C28_SearchLoopsTerminate ==
    /\ []LoopWithinBudget
    /\ [][LoopKeepsBudgetStep]_vars
    /\ (prog \in SearchProgs \cup {"online"}) ~> (pc \in {"done", "crashed"})

\* a csm run of two solver steps has ended after exactly two iterations
C28_Witness ==
    /\ prog = "csm" /\ pc = "done" /\ config.solver_steps = 2
    /\ i = 3 /\ score_log[Len(score_log)].step = 2 /\ saved # None

\* the number of places of sq that hold v
CountIn(sq, v) == Cardinality({k \in 1..Len(sq) : sq[k] = v})

\* C29: PolicyWeightsDataset applies one and the same permutation to x and
\* y, so every (design, score) pair of the files is kept, and splits the
\* shuffled rows into validation = the first val_size and train = the rest:
\* no row is in both splits and every row is in the two together exactly
\* once.
C29_SplitsPartitionThePairs ==
    (prog = "seeded" /\ runs.kind = "dataset") =>
        \A r \in 1..2 :
            LET run == runs.run[r]
                N == runs.N
            IN /\ run.indices # None =>
                     /\ Len(run.indices[1]) = N
                     /\ \A j \in 1..N : CountIn(run.indices[1], j) = 1
                     /\ \A k \in 1..N :
                           /\ run.x[1][k] = FileRow(run.indices[1][k]).x
                           /\ run.y[1][k] = FileRow(run.indices[1][k]).y
               /\ run.train # None =>
                     /\ Len(run.val[1]) = runs.val_size
                     /\ Len(run.train[1]) = N - runs.val_size
                     /\ \A k \in 1..runs.val_size :
                           CountIn(run.val[1],
                                   FileRow(run.indices[1][k])) = 1
                     /\ \A k \in (runs.val_size + 1)..N :
                           CountIn(run.train[1],
                                   FileRow(run.indices[1][k])) = 1
                     /\ \A j \in 1..N :
                           /\ CountIn(run.val[1], FileRow(j))
                                 + CountIn(run.train[1], FileRow(j)) = 1

\* three rows were shuffled out of their file order and split into one
\* validation row and two train rows, which the pass over train reordered
C29_Witness ==
    /\ prog = "seeded" /\ runs.kind = "dataset"
    /\ runs.N = 3 /\ runs.val_size = 1
    /\ runs.run[1].train # None
    /\ runs.run[1].indices[1] # <<1, 2, 3>>
    /\ runs.run[1].val[1] = <<FileRow(runs.run[1].indices[1][1])>>
    /\ runs.run[1].train[1] = <<FileRow(runs.run[1].indices[1][3]),
                                FileRow(runs.run[1].indices[1][2])>>

\* C30: for every launcher command and all cpus >= 1, gpus >= 0 and
\* num_parallel >= 1 the per-trial request is valid: cpu and gpu are not
\* negative, and num_parallel concurrent trials request no more than the
\* cpus and gpus given to ray.init.
C30_ResourceRequestIsValid ==
    (prog = "launcher" /\ tune # None) =>
        LET request == tune[1].resources_per_trial
        IN /\ launch.cpus >= 1 /\ launch.gpus >= 0
           /\ launch.num_parallel >= 1
           /\ request.cpu >= 0
           /\ request.gpu_num >= 0 /\ request.gpu_den > 0
           /\ launch.num_parallel * request.cpu <= ray[1].num_cpus
           /\ launch.num_parallel * request.gpu_num
                 <= ray[1].num_gpus * request.gpu_den

\* what the request does keep: the cpu share is not negative, the trials
\* together stay within what ray.init was given, and the gpu share is
\* negative exactly when 100 * gpus < num_parallel
C30_RequestWithinRayInit ==
    (prog = "launcher" /\ tune # None) =>
        LET request == tune[1].resources_per_trial
        IN /\ request.cpu >= 0 /\ request.gpu_den > 0
           /\ launch.num_parallel * request.cpu <= ray[1].num_cpus
           /\ launch.num_parallel * request.gpu_num
                 <= ray[1].num_gpus * request.gpu_den
           /\ request.gpu_num < 0 <=> 100 * launch.gpus < launch.num_parallel

\* a launch with --gpus 0 has asked tune.run for gpu = -0.01 per trial
C30_NegativeGpuRequested ==
    /\ prog = "launcher" /\ tune # None
    /\ launch.gpus = 0 /\ launch.num_parallel = 1
    /\ tune[1].resources_per_trial.gpu_num = -1
    /\ tune[1].resources_per_trial.gpu_den = 100

====
